---- MODULE Spec2Model ----
(***************************************************************************)
(* A model of dynamorph's trajectory reorderer (reorder_with_trajectories), *)
(* training loops (train, train_adversarial), model classes (VQ_VAE, VAE,  *)
(* IWAE, AAE: construction from a configuration, loss of the forward pass) *)
(* and VectorQuantizer of HiddenStateExtractor/vq_vae.py, and of what      *)
(* surrounds them: DynaMorphConfig (params.py), main of run_patch.py,      *)
(* run_VAE.py and run_preproc.py with their worker processes, and          *)
(* YamlReader (configs/config_reader.py).                                  *)
(*                                                                         *)
(* Python indices are kept 0-based: the dataset, the relation matrix and   *)
(* relation_dict are functions over 0..N-1 (or over their keys); Python    *)
(* lists (inds_in_order, traj, the queue) are sequences, so the element at *)
(* Python position k is s[k+1].  The relation weights 0.1 and 1.1 are kept *)
(* in tenths (1 and 11).                                                   *)
(***************************************************************************)
EXTENDS Integers, Sequences, FiniteSets, TLC

\* ------------------------------------------------------------------ bounds
\* largest dataset handed to reorder_with_trajectories
MaxN == 3
\* largest number of entries of an arbitrary relations dict
MaxRel == 2
\* largest number of undirected pairs of a relations dict stored both ways
MaxEdges == 2
\* largest dataset handed over together with an out-of-range relation index
MaxBadN == 2
\* largest dataset, batch size and number of epochs handed to the training loops
MaxTrainN == 3
MaxBatch == 4
MaxEpochs == 2
\* largest codebook (num_embeddings) handed to the quantizer
MaxCodes == 2

\* most DynaMorphConfig instances built, and largest value assigned to a key
MaxInst == 2
MaxParamVal == 2

\* most sites in the data directory, largest --gpus and --gpu, most --weights
MaxSites == 3
MaxGpus == 2
MaxWeights == 2

\* most fields in one section of a yaml configuration file
MaxFields == 1

\* ------------------------------------------------------- program constants
SAME_TRAJECTORY == 1
ADJACENT_FRAME == 2
\* weights written into the sparse matrix, in tenths (0.1 and 1.1)
W_SAME == 1
W_ADJ == 11
\* VAE_ALPHA, the weight of the time-matching loss, in thousandths (0.005)
VAE_ALPHA == 5
\* the seed assemble_VAE passes
SEED == 123

\* TRAIN_BATCH_SIZE of the default parameters
TRAIN_BATCH_SIZE == 16

VARIABLES
    \* inputs of reorder_with_trajectories
    N, dataset, relations, seed,
    \* the global numpy generator: <<>> when its state is unknown,
    \* <<s, c>> after seed(s) and c draws; memo holds the draws already made
    \* from a known state (a fixed but unknown function of the state)
    rng, memo,
    \* locals of reorder_with_trajectories
    pc, err, inds_pool, inds_in_order, relation_dict, traj, q,
    new_tensor, relation_mat,
    \* the caller: number of calls made and the outcome of the previous call
    calls, prev,
    \* train / train_adversarial: which one runs, len(dataset), the params
    \* (TRAIN_BATCH_SIZE, TRAIN_N_EPOCHS, TRAIN_LOG_FILE a path or None,
    \* TRAIN_LEARNING_RATE as its kind and length), what params is (a dict or
    \* a DynaMorphConfig) and whether it has the key TRAIN_LOG_FILE, and the
    \* torch installed ("1.4" for any before 1.5, "1.5" for 1.5 and later),
    \* and whether Python runs with -O, which removes the assert statements
    t_fn, t_N, t_batch_size, t_n_epochs, t_log_file, t_lr, t_torch, t_conf,
    t_log_key, t_optimize,
    \* their locals: control position, exception, n_batches, epoch, i, the
    \* epoch's recon_loss list (one entry per batch, the batch's [lo, hi)
    \* positions standing for its loss), and the lines written so far, to
    \* standard output or to the log file
    t_pc, t_err, t_n_batches, t_epoch, t_i, t_recon_loss, t_log,
    \* the model handed over (its class), the relation matrix (<<>> for None,
    \* <<n>> for an n x n matrix), whether a mask is given, and the gradients
    \* stored on each group of parameters (the set of loss terms backpropagated
    \* into it since it was last cleared)
    t_model, t_rel_n, t_has_mask, t_grad,
    \* the optimizers: steps taken by each, and the gradient its last step
    \* applied
    t_steps, t_applied,
    \* the minibatch in progress: the statement of the loop body to run next,
    \* the statements run so far, what was sliced for the model, loss_dict
    t_k, t_ops, t_batch, t_loss,
    \* building a model from a configuration and calling it once: the class,
    \* the keys the configuration lacks, whether the call passes a relation
    \* block, the position, the exception and where it was raised
    c_model, c_missing, c_has_rel, c_pc, c_err, c_where,
    \* what the configuration holds for PATCH_STDS (a Python list, as the
    \* default parameters do, or a numpy array) and the number it holds for
    \* VAE_NUM_RESIDUAL_LAYERS, when the keys are there
    c_stds, c_layers,
    \* the vector quantizer: the shape [B, D, H, W] and the values of the latent
    \* grid, the codebook, the position, the results of encode_inputs,
    \* decode_inputs and forward, the exception
    vq_shape, vq_x, vq_w, vq_pc, vq_indices, vq_decoded, vq_out, vq_err,
    \* params.py: the dict objects of the process by identity (the module's
    \* default_model_parameters is one), the DynaMorphConfig instances built
    \* so far (each holds in _config a reference to a dict object), the last
    \* operation performed and whether the module is in use
    p_heap, p_objs, p_last, p_pc,
    \* main of run_patch.py or of run_VAE.py: which program runs, the parsed
    \* arguments, what the file system holds, the position, the exception,
    \* the sites selected, the workers started so far (each with the device
    \* it is pinned to, its sites and whether it is alive), the loop index
    \* and, in run_VAE, the (well, weight) pairs still to run
    m_prog, m_args, m_fs, m_pc, m_err, m_sites, m_workers, m_i, m_todo,
    \* configs/config_reader.py: the class attributes files, preprocess, model
    \* and training of YamlReader, the content of the yaml file, self.config
    \* (<<>> for None), the attributes set on the reader, the warnings logged,
    \* the position and the exception
    y_groups, y_file, y_config, y_attrs, y_warned, y_pc, y_err,
    \* the major version of the PyYAML installed ("5" for any before 6)
    y_yaml,
    \* main of run_preproc.py: whether --fov is given, what the input path is
    \* (a directory, nothing or a regular file), the sites (--fov or the
    \* listing),
    \* the sites whose write fails, the output directory ("exists", "absent"
    \* or "blocked" when it cannot be created), the sites still to go, the
    \* lines printed, the position and the exception
    i_fov, i_input, i_sites, i_write, i_outdir, i_todo, i_out, i_pc, i_err

rvars == <<N, dataset, relations, seed, rng, memo, pc, err, inds_pool,
           inds_in_order, relation_dict, traj, q, new_tensor, relation_mat,
           calls, prev>>

tvars == <<t_fn, t_N, t_batch_size, t_n_epochs, t_log_file, t_lr, t_torch,
           t_conf, t_log_key, t_optimize, t_pc, t_err,
           t_n_batches, t_epoch, t_i, t_recon_loss, t_log, t_model, t_rel_n,
           t_has_mask, t_grad, t_steps, t_applied, t_k, t_ops, t_batch,
           t_loss>>

cvars == <<c_model, c_missing, c_has_rel, c_pc, c_err, c_where, c_stds,
           c_layers>>

qvars == <<vq_shape, vq_x, vq_w, vq_pc, vq_indices, vq_decoded, vq_out,
           vq_err>>

pvars == <<p_heap, p_objs, p_last, p_pc>>

\* the command-line programs and the configuration classes
mvars == <<m_prog, m_args, m_fs, m_pc, m_err, m_sites, m_workers, m_i,
           m_todo>>

yvars == <<y_groups, y_file, y_config, y_attrs, y_warned, y_pc, y_err,
           y_yaml>>

ivars == <<i_fov, i_input, i_sites, i_write, i_outdir, i_todo, i_out, i_pc,
           i_err>>

svars == <<pvars, mvars, yvars, ivars>>

\* the reorderer, the training loops, the model classes and the quantizer
corevars == <<rvars, tvars, cvars, qvars>>

vars == <<rvars, tvars, cvars, qvars, svars>>

\* ----------------------------------------------------------------- helpers
Range(s) == {s[k] : k \in 1..Len(s)}

\* no entry of the list is repeated
Injective(s) == \A a, b \in 1..Len(s) : s[a] = s[b] => a = b

Min(S) == CHOOSE x \in S : \A y \in S : x <= y

\* list(a set of small ints): CPython iterates it in ascending order
RECURSIVE SortedList(_)
SortedList(S) ==
    IF S = {} THEN <<>>
    ELSE LET m == Min(S) IN <<m>> \o SortedList(S \ {m})

Key(e) == <<e[1], e[2]>>

Keys(rels) == {Key(rels[k]) : k \in 1..Len(rels)}

\* relations[(i, j)] for a key of the dict
Lookup(rels, i, j) ==
    LET k == CHOOSE k \in 1..Len(rels) : Key(rels[k]) = <<i, j>> IN rels[k][3]

\* the synthetic patch stored at index i of the input dataset
Patch(i) == 100 + i

MakeDataset(n) == [i \in 0..(n - 1) |-> Patch(i)]

\* ----------------------------------------------------------------- inputs
Entries(lo, hi) == {<<i, j, v>> : i \in lo..hi, j \in lo..hi,
                                   v \in {SAME_TRAJECTORY, ADJACENT_FRAME}}

\* dicts in insertion order: sequences of at most k entries with distinct keys
RECURSIVE RelSeqs(_, _)
RelSeqs(E, k) ==
    IF k = 0 THEN {<<>>}
    ELSE LET S == RelSeqs(E, k - 1) IN
         S \cup UNION {{Append(s, e) : e \in {x \in E : Key(x) \notin Keys(s)}} :
                       s \in {t \in S : Len(t) = k - 1}}

\* a dict that stores every pair of s in both directions, (a,b) then (b,a)
Expand(s) ==
    [k \in 1..(2 * Len(s)) |->
        LET e == s[(k + 1) \div 2] IN
        IF k % 2 = 1 THEN e ELSE <<e[2], e[1], e[3]>>]

UEntries(n) == {e \in Entries(0, n - 1) : e[1] < e[2]}

\* relation graphs over a dataset of n patches, every index in [0, n)
GoodInputs(n) ==
    RelSeqs(Entries(0, n - 1), MaxRel)
        \cup {Expand(s) : s \in RelSeqs(UEntries(n), MaxEdges)}

OutOfRange(rels, n) ==
    \E k \in 1..Len(rels) : \E c \in 1..2 : rels[k][c] < 0 \/ rels[k][c] >= n

\* entries with an index outside [0, n): one below the range or one above it
BadEntries(n) == {e \in Entries(-1, n) : OutOfRange(<<e>>, n)}

\* s with e inserted before position p
InsertAt(s, p, e) == SubSeq(s, 1, p - 1) \o <<e>> \o SubSeq(s, p, Len(s))

\* relation graphs with exactly one entry that has an index outside [0, n),
\* anywhere in the dict
BadInputs(n) ==
    UNION {{InsertAt(s, p, e) : p \in 1..(Len(s) + 1), e \in BadEntries(n)} :
           s \in RelSeqs(Entries(0, n - 1), MaxRel - 1)}

\* relation graphs for two calls: a single entry, or pairs stored both ways
TwiceInputs(n) ==
    RelSeqs(Entries(0, n - 1), 1)
        \cup {Expand(s) : s \in RelSeqs(UEntries(n), MaxEdges)}

Seeds == {<<>>, <<SEED>>}

NoPrev == [outcome |-> "none", err |-> "", order |-> <<>>, tensor |-> <<>>,
           mat |-> <<>>]

\* no minibatch sliced yet, no loss_dict returned yet
NoBatch == [patch |-> <<>>, rel |-> <<>>, mask |-> <<>>]

NoLoss == [recon_loss |-> [num |-> 0, den |-> 1],
           time_matching_loss |-> <<>>, total_loss |-> 0, weights |-> "none"]

\* no model is being built
ConfigIdle ==
    /\ c_model = "none"
    /\ c_missing = {}
    /\ c_has_rel = FALSE
    /\ c_stds = "none"
    /\ c_layers = 0
    /\ c_pc = "off"
    /\ c_err = ""
    /\ c_where = ""

\* the quantizer is not in use
QuantIdle ==
    /\ vq_shape = <<>>
    /\ vq_x = <<>>
    /\ vq_w = <<>>
    /\ vq_pc = "off"
    /\ vq_indices = <<>>
    /\ vq_decoded = <<>>
    /\ vq_out = <<>>
    /\ vq_err = ""

\* params.py is not in use
NoOp == [op |-> "none", obj |-> 0]

ParamsIdle ==
    /\ p_heap = <<>>
    /\ p_objs = <<>>
    /\ p_last = NoOp
    /\ p_pc = "off"

\* no arguments parsed
NoArgs == [method |-> "none", raw |-> FALSE, supplementary |-> FALSE,
           fov |-> FALSE, gpus |-> 0, weights |-> 0, gpu |-> 0]

NoFs == [sites |-> <<>>, seg |-> {}, cwd |-> FALSE, raw |-> "none"]

\* neither run_patch nor run_VAE runs
MainIdle ==
    /\ m_prog = "none"
    /\ m_args = NoArgs
    /\ m_fs = NoFs
    /\ m_pc = "off"
    /\ m_err = ""
    /\ m_sites = <<>>
    /\ m_workers = <<>>
    /\ m_i = 0
    /\ m_todo = <<>>

\* no YamlReader is in use
YamlIdle ==
    /\ y_groups = <<>>
    /\ y_file = <<>>
    /\ y_config = <<>>
    /\ y_attrs = <<>>
    /\ y_warned = {}
    /\ y_pc = "off"
    /\ y_err = ""
    /\ y_yaml = "none"

\* run_preproc does not run
PreprocIdle ==
    /\ i_fov = FALSE
    /\ i_input = "none"
    /\ i_sites = <<>>
    /\ i_write = <<>>
    /\ i_outdir = "absent"
    /\ i_todo = <<>>
    /\ i_out = <<>>
    /\ i_pc = "off"
    /\ i_err = ""

\* no command-line program runs and no configuration object is in use
ScriptsIdle ==
    /\ ParamsIdle
    /\ MainIdle
    /\ YamlIdle
    /\ PreprocIdle

\* no training loop runs
TrainIdle ==
    /\ t_fn = "none"
    /\ t_N = 0
    /\ t_batch_size = 1
    /\ t_n_epochs = 0
    /\ t_log_file = FALSE
    /\ t_lr = [kind |-> "float", len |-> 0]
    /\ t_torch = "none"
    /\ t_conf = "none"
    /\ t_log_key = FALSE
    /\ t_optimize = FALSE
    /\ t_pc = "off"
    /\ t_err = ""
    /\ t_n_batches = 0
    /\ t_epoch = 0
    /\ t_i = 0
    /\ t_recon_loss = <<>>
    /\ t_log = <<>>
    /\ t_model = "none"
    /\ t_rel_n = <<>>
    /\ t_has_mask = FALSE
    /\ t_grad = <<>>
    /\ t_steps = <<>>
    /\ t_applied = <<>>
    /\ t_k = 0
    /\ t_ops = <<>>
    /\ t_batch = NoBatch
    /\ t_loss = NoLoss

InitCommon ==
    /\ TrainIdle
    /\ ScriptsIdle
    /\ ConfigIdle
    /\ QuantIdle
    /\ dataset = MakeDataset(N)
    /\ rng = <<>>
    /\ memo = <<>>
    /\ pc = "start"
    /\ err = ""
    /\ inds_pool = {}
    /\ inds_in_order = <<>>
    /\ relation_dict = <<>>
    /\ traj = <<>>
    /\ q = <<>>
    /\ new_tensor = <<>>
    /\ relation_mat = <<>>
    /\ calls = 1
    /\ prev = NoPrev

\* one call, the generator never seeded: every sequence of draws
Init ==
    /\ N \in 0..MaxN
    /\ relations \in GoodInputs(N)
    /\ seed = <<>>
    /\ InitCommon

\* one call with a relation index outside [0, N)
InitBad ==
    /\ N \in 0..MaxBadN
    /\ relations \in BadInputs(N)
    /\ seed = <<>>
    /\ InitCommon

\* the adjacent chain 0 - 1 - 2 of scenario A, one direction of each pair
ScenarioA == <<<<0, 1, ADJACENT_FRAME>>, <<1, 2, ADJACENT_FRAME>>>>

\* scenario A with the dict filled in either order, or storing both directions
ScenarioAInputs ==
    {ScenarioA, <<ScenarioA[2], ScenarioA[1]>>, Expand(ScenarioA),
     Expand(<<ScenarioA[2], ScenarioA[1]>>)}

\* scenario A: four patches, index 3 in no relation
InitScenarioA ==
    /\ N = Len(ScenarioA) + 2
    /\ relations \in ScenarioAInputs
    /\ seed \in Seeds
    /\ InitCommon

\* two calls with the same arguments, seeded or not
InitTwice ==
    /\ N \in 0..MaxN
    /\ relations \in TwiceInputs(N)
    /\ seed \in Seeds
    /\ InitCommon

\* ------------------------------------------- reorder_with_trajectories
\* the seed argument is ignored
SeedRngIgnored(sd, r) == r

\* if not seed is None: np.random.seed(seed)
SeedRng(sd, r) == IF sd # <<>> THEN <<sd[1], 0>> ELSE r

\* the test takes the same-trajectory pairs instead
IsAdjacentWrongKind(v) == v = SAME_TRAJECTORY

\* if relations[pair] == 2
IsAdjacent(v) == v = ADJACENT_FRAME

\* relation_dict[a]: the successors of a, in the dict's order
AdjOf(rels, a) ==
    LET f == SelectSeq(rels, LAMBDA e : IsAdjacent(e[3]) /\ e[1] = a)
    IN  [k \in 1..Len(f) |-> f[k][2]]

BuildDict(rels) ==
    [a \in {rels[k][1] : k \in {m \in 1..Len(rels) : IsAdjacent(rels[m][3])}}
        |-> AdjOf(rels, a)]

Enter ==
    /\ pc = "start"
    /\ rng' = SeedRng(seed, rng)
    /\ inds_pool' = 0..(N - 1)
    /\ inds_in_order' = <<>>
    /\ relation_dict' = BuildDict(relations)
    /\ pc' = "loop"
    /\ UNCHANGED <<tvars, cvars, qvars, svars>>
    /\ UNCHANGED <<N, dataset, relations, seed, memo, err, traj, q,
                   new_tensor, relation_mat, calls, prev>>

PoolList == SortedList(inds_pool)

\* np.random.choice(list(inds_pool)) returns PoolList[k].  From an unknown
\* generator state any position may come; from a known state the position
\* is a function of the state and of the length of the list, fixed the first
\* time it is observed.
Choice(k) ==
    /\ k \in 1..Len(PoolList)
    /\ IF rng = <<>>
       THEN UNCHANGED <<rng, memo>>
       ELSE LET at == <<rng[1], rng[2], Len(PoolList)>> IN
            /\ at \in DOMAIN memo => k = memo[at]
            /\ memo' = IF at \in DOMAIN memo THEN memo ELSE (at :> k) @@ memo
            /\ rng' = <<rng[1], rng[2] + 1>>

\* the test never finds the draw among the keys
HasEntryNever(d, x) == FALSE

\* rand_ind in relation_dict
HasEntry(d, x) == x \in DOMAIN d

\* the draw has no adjacency entry: emitted alone
DrawSingleton ==
    /\ pc = "loop"
    /\ inds_pool # {}
    /\ \E k \in 1..Len(PoolList) :
         LET rand_ind == PoolList[k] IN
         /\ Choice(k)
         /\ ~HasEntry(relation_dict, rand_ind)
         /\ inds_in_order' = Append(inds_in_order, rand_ind)
         /\ inds_pool' = inds_pool \ {rand_ind}
    /\ UNCHANGED <<tvars, cvars, qvars, svars>>
    /\ UNCHANGED <<N, dataset, relations, seed, pc, err, relation_dict, traj,
                   q, new_tensor, relation_mat, calls, prev>>

\* the draw has an adjacency entry: a traversal starts from it
DrawTrajectory ==
    /\ pc = "loop"
    /\ inds_pool # {}
    /\ \E k \in 1..Len(PoolList) :
         LET rand_ind == PoolList[k] IN
         /\ Choice(k)
         /\ HasEntry(relation_dict, rand_ind)
         /\ traj' = <<rand_ind>>
         /\ q' = <<rand_ind>>
    /\ pc' = "bfs"
    /\ UNCHANGED <<tvars, cvars, qvars, svars>>
    /\ UNCHANGED <<N, dataset, relations, seed, err, inds_pool, inds_in_order,
                   relation_dict, new_tensor, relation_mat, calls, prev>>

\* no visited guard
UnvisitedAlways(e, tr) == TRUE

\* if not e in traj
Unvisited(e, tr) == e \notin Range(tr)

\* for e in new_elems: if not e in traj: traj.append(e); q.put(e)
RECURSIVE Visit(_, _, _)
Visit(new_elems, tr, qu) ==
    IF new_elems = <<>> THEN <<tr, qu>>
    ELSE LET e == Head(new_elems) IN
         IF Unvisited(e, tr)
         THEN Visit(Tail(new_elems), Append(tr, e), Append(qu, e))
         ELSE Visit(Tail(new_elems), tr, qu)

\* one turn of the inner loop: q.get_nowait(), relation_dict[elem], the for
BfsStep ==
    /\ pc = "bfs"
    /\ q # <<>>
    /\ LET elem == Head(q) IN
       IF elem \notin DOMAIN relation_dict
       THEN /\ pc' = "raised"
            /\ err' = "KeyError"
            /\ q' = Tail(q)
            /\ UNCHANGED traj
       ELSE LET r == Visit(relation_dict[elem], traj, Tail(q)) IN
            /\ traj' = r[1]
            /\ q' = r[2]
            /\ UNCHANGED <<pc, err>>
    /\ UNCHANGED <<tvars, cvars, qvars, svars>>
    /\ UNCHANGED <<N, dataset, relations, seed, rng, memo, inds_pool,
                   inds_in_order, relation_dict, new_tensor, relation_mat,
                   calls, prev>>

\* for e in traj: inds_pool.remove(e); <<pool left, FALSE>> when a remove
\* raises KeyError
RECURSIVE RemoveAll(_, _)
RemoveAll(pool, tr) ==
    IF tr = <<>> THEN <<pool, TRUE>>
    ELSE IF Head(tr) \notin pool THEN <<pool, FALSE>>
    ELSE RemoveAll(pool \ {Head(tr)}, Tail(tr))

\* queue.Empty: break; the block is emitted and its members leave the pool
BfsEnd ==
    /\ pc = "bfs"
    /\ q = <<>>
    /\ inds_in_order' = inds_in_order \o traj
    /\ LET r == RemoveAll(inds_pool, traj) IN
       /\ inds_pool' = r[1]
       /\ IF r[2] THEN pc' = "loop" /\ UNCHANGED err
          ELSE pc' = "raised" /\ err' = "KeyError"
    /\ UNCHANGED <<tvars, cvars, qvars, svars>>
    /\ UNCHANGED <<N, dataset, relations, seed, rng, memo, relation_dict,
                   traj, q, new_tensor, relation_mat, calls, prev>>

\* the rows are scattered to the listed positions instead of gathered from them
TakeRowsScatter(ds, order) ==
    [k \in 0..(Len(order) - 1) |->
        ds[(CHOOSE m \in 1..Len(order) : order[m] = k) - 1]]

\* dataset.tensors[0][np.array(inds_in_order)]
TakeRows(ds, order) == [k \in 0..(Len(order) - 1) |-> ds[order[k + 1]]]

Weight(v) == IF v = SAME_TRAJECTORY THEN W_SAME ELSE W_ADJ

\* csr_matrix((values, (rows, cols)), shape=(n, n))
SparseMat(rels, n) ==
    [i \in 0..(n - 1), j \in 0..(n - 1) |->
        IF <<i, j>> \in Keys(rels) THEN Weight(Lookup(rels, i, j)) ELSE 0]

\* only the rows are re-indexed
ReindexRowsOnly(mat, order) ==
    [a \in 0..(Len(order) - 1), b \in 0..(Len(order) - 1) |->
        mat[order[a + 1], b]]

\* relation_mat[np.array(order)][:, np.array(order)]
Reindex(mat, order) ==
    [a \in 0..(Len(order) - 1), b \in 0..(Len(order) - 1) |->
        mat[order[a + 1], order[b + 1]]]

\* the sparse constructor accepts any index
BuildErrorNoIndexCheck(rels, n) ==
    IF Len(rels) = 0 THEN "IndexError" ELSE ""

\* what lines 1080-1082 raise: new_relations[:, 0] on the 1-d array of an
\* empty dict, the sparse constructor's check of the indices against the
\* shape; "" when they raise nothing
BuildError(rels, n) ==
    IF Len(rels) = 0 THEN "IndexError"
    ELSE IF OutOfRange(rels, n) THEN "ValueError"
    ELSE ""

\* the pool is empty: lines 1069-1084
Build ==
    /\ pc = "loop"
    /\ inds_pool = {}
    /\ new_tensor' = TakeRows(dataset, inds_in_order)
    /\ LET e == BuildError(relations, N) IN
       IF e # ""
       THEN pc' = "raised" /\ err' = e /\ UNCHANGED relation_mat
       ELSE /\ pc' = "done"
            /\ relation_mat' = Reindex(SparseMat(relations, N), inds_in_order)
            /\ UNCHANGED err
    /\ UNCHANGED <<tvars, cvars, qvars, svars>>
    /\ UNCHANGED <<N, dataset, relations, seed, rng, memo, inds_pool,
                   inds_in_order, relation_dict, traj, q, calls, prev>>

\* the caller calls again with the same arguments; the generator keeps its state
Again ==
    /\ pc \in {"done", "raised"}
    /\ calls = 1
    /\ prev' = [outcome |-> pc, err |-> err, order |-> inds_in_order,
                tensor |-> new_tensor, mat |-> relation_mat]
    /\ calls' = 2
    /\ pc' = "start"
    /\ err' = ""
    /\ inds_pool' = {}
    /\ inds_in_order' = <<>>
    /\ relation_dict' = <<>>
    /\ traj' = <<>>
    /\ q' = <<>>
    /\ new_tensor' = <<>>
    /\ relation_mat' = <<>>
    /\ UNCHANGED <<tvars, cvars, qvars, svars>>
    /\ UNCHANGED <<N, dataset, relations, seed, rng, memo>>

\* ------------------------------------------- train / train_adversarial
\* no call of reorder_with_trajectories is in progress
ReorderIdle ==
    /\ N = 0
    /\ dataset = <<>>
    /\ relations = <<>>
    /\ seed = <<>>
    /\ rng = <<>>
    /\ memo = <<>>
    /\ pc = "off"
    /\ err = ""
    /\ inds_pool = {}
    /\ inds_in_order = <<>>
    /\ relation_dict = <<>>
    /\ traj = <<>>
    /\ q = <<>>
    /\ new_tensor = <<>>
    /\ relation_mat = <<>>
    /\ calls = 0
    /\ prev = NoPrev

\* the arguments of train / train_adversarial
t_args == <<t_fn, t_N, t_batch_size, t_n_epochs, t_log_file, t_lr, t_torch,
            t_conf, t_log_key, t_optimize, t_model, t_rel_n, t_has_mask>>

\* the model classes
Models == {"VQ_VAE", "VAE", "IWAE", "AAE"}

\* the groups of parameters of a model: its sub-modules with weights
ParamGroups(model) ==
    IF model = "VQ_VAE" THEN {"enc", "vq", "dec"}
    ELSE IF model = "AAE" THEN {"enc", "dec", "enc_d"}
    ELSE {"enc", "dec"}

\* the terms a loss is the sum of.  The discriminator loss is the mean of
\* log(D(z_prior)) + log(1 - D(z_data)); the other losses are kept whole.
LossTerms(loss) ==
    IF loss = "descriminator_loss"
    THEN {"log(D(z_prior))", "log(1 - D(z_data))"}
    ELSE {loss}

\* the groups of parameters a term is computed from: the ones its backward
\* pass accumulates a gradient into.  In the discriminator loss the prior
\* term reaches enc_d; the data term is computed from _z_data.detach(), the
\* detached OUTPUT of enc_d, so no graph leads from it to any parameter.
\* The generator loss reaches enc through enc_d.
TermDeps(model, term) ==
    IF term = "total_loss" THEN ParamGroups(model) \ {"enc_d"}
    ELSE IF term = "log(D(z_prior))" THEN {"enc_d"}
    ELSE IF term = "log(1 - D(z_data))" THEN {}
    ELSE {"enc", "enc_d"}

\* the groups of parameters a loss is computed from
LossDeps(model, loss) ==
    UNION {TermDeps(model, term) : term \in LossTerms(loss)}

\* the optimizers each loop makes, and the parameters each one updates
Optimizers(fn) ==
    IF fn = "train" THEN {"optimizer"}
    ELSE {"optim_enc", "optim_dec", "optim_enc_g", "optim_enc_d"}

OptParams(o, model) ==
    IF o = "optimizer" THEN ParamGroups(model)
    ELSE IF o = "optim_dec" THEN {"dec"}
    ELSE IF o = "optim_enc_d" THEN {"enc_d"}
    ELSE {"enc"}

\* a trajectory of n frames in temporal order, as reorder_with_trajectories
\* lays it out: adjacent frames 1.1, other frames of the trajectory 0.1
TrainRel(n) ==
    [a \in 0..(n - 1) |-> [b \in 0..(n - 1) |->
        IF a = b THEN 0
        ELSE IF a - b = 1 \/ b - a = 1 THEN W_ADJ ELSE W_SAME]]

\* the lengths of a TRAIN_LEARNING_RATE given as a sequence
LrLens == {2, 3}

\* TRAIN_LEARNING_RATE: a float, an int, or a sequence of floats
LearningRates ==
    {[kind |-> "float", len |-> 0], [kind |-> "int", len |-> 0]}
        \cup {[kind |-> "list", len |-> n] : n \in LrLens}

\* inputs: either loop, a model it can run, any dataset size, batch size and
\* number of epochs, a learning rate, params a dict or a DynaMorphConfig,
\* with TRAIN_LOG_FILE set to a path, set to None or not a key (as in the
\* default parameters), a relation matrix absent, fitting the dataset or one
\* row off, a mask or none, gradients clean or left over from earlier use;
\* the torch of the installation, and Python run with or without -O
InitTrain ==
    /\ ReorderIdle
    /\ ScriptsIdle
    /\ ConfigIdle
    /\ QuantIdle
    /\ t_fn \in {"train", "train_adversarial"}
    /\ t_model \in (IF t_fn = "train" THEN Models ELSE {"AAE"})
    /\ t_N \in 0..MaxTrainN
    /\ t_batch_size \in 1..MaxBatch
    /\ t_n_epochs \in 0..MaxEpochs
    /\ t_log_file \in BOOLEAN
    /\ t_lr \in LearningRates
    /\ t_torch \in {"1.4", "1.5"}
    /\ t_conf \in {"dict", "DynaMorphConfig"}
    /\ t_log_key \in BOOLEAN
    /\ t_log_file => t_log_key
    /\ t_optimize \in BOOLEAN
    /\ t_rel_n \in {<<>>} \cup {<<n>> : n \in {t_N - 1, t_N, t_N + 1} \cap Nat}
    /\ t_has_mask \in BOOLEAN
    /\ t_grad \in {[g \in ParamGroups(t_model) |-> {}],
                   [g \in ParamGroups(t_model) |-> {"earlier"}]}
    /\ t_steps = <<>>
    /\ t_applied = <<>>
    /\ t_pc = "start"
    /\ t_err = ""
    /\ t_n_batches = 0
    /\ t_epoch = 0
    /\ t_i = 0
    /\ t_recon_loss = <<>>
    /\ t_log = <<>>
    /\ t_k = 0
    /\ t_ops = <<>>
    /\ t_batch = NoBatch
    /\ t_loss = NoLoss

\* int(np.ceil(len(dataset)/batch_size))
NBatches(n, bs) == (n + bs - 1) \div bs

\* the positions of dataset[i*batch_size:(i+1)*batch_size], as [lo, hi)
BatchSlice(i, bs, n) ==
    LET lo == IF i * bs < n THEN i * bs ELSE n
        hi == IF (i + 1) * bs < n THEN (i + 1) * bs ELSE n
    IN  <<lo, hi>>

\* model.zero_grad() keeps the gradients
ZeroGradSkipped(g) == g

\* model.zero_grad(): every stored gradient is cleared
ZeroGrad(g) == [k \in DOMAIN g |-> {}]

\* what making the optimizers raises.  train hands lr to Adam, which
\* compares it with 0.0: a sequence is a TypeError.  train_adversarial takes
\* a float as the three rates, else asks for len(lr): an int has none
\* (TypeError at 790), and with a length other than 3 neither branch binds
\* lr_recon, which line 793 then reads (UnboundLocalError).
RateError(fn, lr) ==
    IF fn = "train"
    THEN IF lr.kind = "list" THEN "TypeError" ELSE ""
    ELSE IF lr.kind = "float" THEN ""
    ELSE IF lr.kind = "int" THEN "TypeError"
    ELSE IF lr.len = 3 THEN ""
    ELSE "UnboundLocalError"

\* what params['TRAIN_LOG_FILE'] prints: DynaMorphConfig.__getitem__ prints
\* a line for a key it does not have and gives None
LogFileKeyLines(conf, has_key) ==
    IF conf = "DynaMorphConfig" /\ ~has_key
    THEN << [line |-> "Key not found", epoch |-> -1, dest |-> "stdout"] >>
    ELSE <<>>

\* what lines 694-699 (781-796) raise: a dict without the key is a KeyError
\* at 697 (784), before the optimizers are made
EnterError(fn, lr, conf, has_key) ==
    IF conf = "dict" /\ ~has_key THEN "KeyError" ELSE RateError(fn, lr)

\* lines 694-702 and 781-799: the params are read, the optimizers made, the
\* gradients cleared
TrainEnter ==
    /\ t_pc = "start"
    /\ t_log' = t_log \o LogFileKeyLines(t_conf, t_log_key)
    /\ IF EnterError(t_fn, t_lr, t_conf, t_log_key) # ""
       THEN /\ t_pc' = "raised"
            /\ t_err' = EnterError(t_fn, t_lr, t_conf, t_log_key)
            /\ UNCHANGED <<t_steps, t_applied, t_grad, t_n_batches, t_epoch>>
       ELSE /\ t_steps' = [o \in Optimizers(t_fn) |-> 0]
            /\ t_applied' = [o \in Optimizers(t_fn) |-> {}]
            /\ t_grad' = ZeroGrad(t_grad)
            /\ t_n_batches' = NBatches(t_N, t_batch_size)
            /\ t_epoch' = 0
            /\ t_pc' = "epoch"
            /\ UNCHANGED t_err
    /\ UNCHANGED <<t_args, t_i, t_recon_loss, t_k, t_ops, t_batch, t_loss>>
    /\ UNCHANGED <<rvars, cvars, qvars, svars>>

\* for epoch in range(n_epochs): the lists are emptied and 'start epoch %d'
\* is printed
EpochStart ==
    /\ t_pc = "epoch"
    /\ t_epoch < t_n_epochs
    /\ t_recon_loss' = <<>>
    /\ t_log' = Append(t_log, [line |-> "start epoch", epoch |-> t_epoch,
                                dest |-> "stdout"])
    /\ t_i' = 0
    /\ t_pc' = "batch"
    /\ UNCHANGED <<t_args, t_err, t_n_batches, t_epoch, t_grad, t_steps,
                   t_applied, t_k, t_ops, t_batch, t_loss>>
    /\ UNCHANGED <<rvars, cvars, qvars, svars>>

\* the statements of the loop body from the forward pass on, in program order
Body(fn) ==
    IF fn = "train"
    THEN << <<"forward", "model">>,
            <<"backward", "total_loss">>,
            <<"step", "optimizer">>,
            <<"zero_grad", "model">> >>
    ELSE << <<"forward", "model">>,
            <<"backward", "total_loss">>,
            <<"step", "optim_enc">>,
            <<"step", "optim_dec">>,
            <<"adversarial_loss", "model">>,
            <<"backward", "descriminator_loss">>,
            <<"step", "optim_enc_d">>,
            <<"backward", "generator_loss">>,
            <<"step", "optim_enc_g">>,
            <<"zero_grad", "model">> >>

\* the statement to run next inside a minibatch
Stmt == Body(t_fn)[t_k]

AtStmt(kind) ==
    /\ t_pc = "step"
    /\ t_k <= Len(Body(t_fn))
    /\ Stmt[1] = kind

\* what train slices for the model: the patches, the block of the relation
\* matrix and the masks of minibatch i, each as [lo, hi) (<<>> for None)
MakeBatch(i, bs, n, rel_n, has_mask) ==
    [patch |-> BatchSlice(i, bs, n),
     rel   |-> IF rel_n = <<>> THEN <<>> ELSE <<BatchSlice(i, bs, rel_n[1])>>,
     mask  |-> IF has_mask THEN <<BatchSlice(i, bs, n)>> ELSE <<>>]

\* the latent of the patch at position p: one number stands for the encoder
Latent(p) == p

\* sim_mat: squared latent distance of every pair of the minibatch
SimMat(lo, hi) ==
    [ab \in (0..(hi - lo - 1)) \X (0..(hi - lo - 1)) |->
        (Latent(lo + ab[1]) - Latent(lo + ab[2]))
            * (Latent(lo + ab[1]) - Latent(lo + ab[2]))]

\* batch_relation_mat: the rows and columns [lo, hi) of the relation matrix
RelBlock(rel_n, lo, hi) ==
    [ab \in (0..(hi - lo - 1)) \X (0..(hi - lo - 1)) |->
        TrainRel(rel_n)[lo + ab[1]][lo + ab[2]]]

RECURSIVE SumOver(_, _)
SumOver(f, S) ==
    IF S = {} THEN 0
    ELSE LET x == CHOOSE y \in S : TRUE IN f[x] + SumOver(f, S \ {x})

\* the number of rows of a square matrix
Side(f) == Cardinality({ab \in DOMAIN f : ab[2] = 0})

\* sim_mat * time_matching_mat: two shapes go together when they are equal
\* or one of them is (1, 1), which is then repeated (broadcast) to the size
\* of the other
BroadcastError(sim, mat) ==
    IF Side(sim) = Side(mat) \/ Side(sim) = 1 \/ Side(mat) = 1 THEN ""
    ELSE "RuntimeError"

\* only the entries above the diagonal are summed
TimeMatchingLossUpper(sim, mat) ==
    LET D == {ab \in DOMAIN sim \cap DOMAIN mat : ab[1] < ab[2]}
    IN  SumOver([ab \in D |-> sim[ab] * mat[ab]], D)

\* (sim_mat * time_matching_mat).sum(), in tenths: the elementwise product
\* of the two matrices, a (1, 1) matrix broadcast against the other
TimeMatchingLoss(sim, mat) ==
    LET n == IF Side(sim) = 1 THEN Side(mat) ELSE Side(sim)
        D == (0..(n - 1)) \X (0..(n - 1))
        At(f, ab) == IF Side(f) = 1 THEN <<0, 0>> ELSE ab
    IN  SumOver([ab \in D |-> sim[At(sim, ab)] * mat[At(mat, ab)]], D)

\* assert sim_mat.shape == time_matching_mat.shape, a statement that
\* python -O removes: the product of the next line then raises unless the
\* shapes can be broadcast
ShapeError(sim, mat, optimize) ==
    IF DOMAIN sim = DOMAIN mat THEN ""
    ELSE IF ~optimize THEN "AssertionError"
    ELSE BroadcastError(sim, mat)

\* the reconstruction loss of a minibatch as the network computes it, and
\* the variant's loss before time matching (recon_loss + c_loss, recon_loss
\* + KLD, the importance-weighted loss, recon_loss): whole numbers stand for
\* the network's outputs
ReconLoss(lo, hi) == hi - lo

LossWithoutTimeMatching(model, lo, hi) ==
    IF model = "AAE" THEN ReconLoss(lo, hi) ELSE ReconLoss(lo, hi) + 1

\* total_loss in units of 0.0001: tm is <<>> for None, else <<tenths>>
TotalLoss(model, base, tm) ==
    IF model = "IWAE" THEN 10000 * base + 1000 * tm[1]
    ELSE IF tm = <<>> THEN 10000 * base
    ELSE 10000 * base + VAE_ALPHA * tm[1]

\* forward of the four variants on one minibatch: loss_dict (total_loss in
\* units of 0.0001, recon_loss as the quotient num / den of a number in
\* these units), and the pixel weights the reconstruction loss used.  VAE
\* and IWAE return recon_loss / (inputs.shape[0] * 32768), VQ_VAE and AAE
\* recon_loss itself.  In AAE total_loss = recon_loss names the one tensor,
\* and total_loss += ... adds the time-matching term to it in place: with a
\* relation block the recon_loss returned is the total.
Forward(model, batch, rel_n) ==
    LET lo   == batch.patch[1]
        hi   == batch.patch[2]
        tm   == IF batch.rel = <<>>
                THEN IF model = "IWAE" THEN <<0>> ELSE <<>>
                ELSE <<TimeMatchingLoss(SimMat(lo, hi),
                          RelBlock(rel_n[1], batch.rel[1][1], batch.rel[1][2]))>>
        total == TotalLoss(model, LossWithoutTimeMatching(model, lo, hi), tm)
    IN  [recon_loss |->
             IF model \in {"VAE", "IWAE"}
             THEN [num |-> 10000 * ReconLoss(lo, hi),
                   den |-> (hi - lo) * 32768]
             ELSE IF model = "AAE" /\ batch.rel # <<>>
             THEN [num |-> total, den |-> 1]
             ELSE [num |-> 10000 * ReconLoss(lo, hi), den |-> 1],
         time_matching_loss |-> tm,
         total_loss |-> total,
         weights |-> IF batch.mask = <<>> THEN "ones" ELSE "batch_mask"]

\* what the forward pass raises on a minibatch
ForwardError(batch, rel_n, optimize) ==
    IF batch.rel = <<>> THEN ""
    ELSE ShapeError(SimMat(batch.patch[1], batch.patch[2]),
                    RelBlock(rel_n[1], batch.rel[1][1], batch.rel[1][2]),
                    optimize)

\* for i in range(n_batches): the minibatch is sliced and the model called,
\* lines 709-732 and 806-829
BatchForward ==
    /\ t_pc = "batch"
    /\ t_i < t_n_batches
    /\ LET b == MakeBatch(t_i, t_batch_size, t_N, t_rel_n, t_has_mask)
           e == ForwardError(b, t_rel_n, t_optimize)
       IN  /\ t_batch' = b
           /\ IF e # ""
              THEN /\ t_pc' = "raised"
                   /\ t_err' = e
                   /\ UNCHANGED <<t_k, t_ops, t_loss>>
              ELSE /\ t_loss' = Forward(t_model, b, t_rel_n)
                   /\ t_ops' = <<Body(t_fn)[1]>>
                   /\ t_k' = 2
                   /\ t_pc' = "step"
                   /\ UNCHANGED t_err
    /\ UNCHANGED <<t_args, t_n_batches, t_epoch, t_i, t_recon_loss, t_log,
                   t_grad, t_steps, t_applied>>
    /\ UNCHANGED <<rvars, cvars, qvars, svars>>

\* the statement that builds the graph of a loss
GraphBuilder(loss) ==
    IF loss = "total_loss" THEN "forward" ELSE "adversarial_loss"

\* the groups of parameters some optimizer has stepped, in place, since the
\* graph of the loss was built
SteppedSince(ops, model, loss) ==
    LET built == {k \in 1..Len(ops) : ops[k][1] = GraphBuilder(loss)}
        last  == CHOOSE k \in built : \A j \in built : j <= k
    IN  IF built = {} THEN {}
        ELSE UNION {OptParams(ops[k][2], model) :
                        k \in {j \in (last + 1)..Len(ops) : ops[j][1] = "step"}}

\* what loss.backward() raises.  The graph of a loss saves the parameters it
\* was computed from; from torch 1.5 on an optimizer's step() changes them in
\* place under autograd's version counter, and backward() through a graph
\* one of whose saved parameters was stepped since is a RuntimeError.
\* Earlier optimizers write through .data, which autograd does not see.
BackwardError(torch, model, loss, ops) ==
    IF /\ torch = "1.5"
       /\ LossDeps(model, loss) \cap SteppedSince(ops, model, loss) # {}
    THEN "RuntimeError" ELSE ""

\* loss.backward(): the gradient is added to what each parameter stores
Backward ==
    /\ AtStmt("backward")
    /\ IF BackwardError(t_torch, t_model, Stmt[2], t_ops) # ""
       THEN /\ t_pc' = "raised"
            /\ t_err' = BackwardError(t_torch, t_model, Stmt[2], t_ops)
            /\ UNCHANGED <<t_grad, t_ops, t_k>>
       ELSE /\ t_grad' = [g \in DOMAIN t_grad |->
                            IF g \in LossDeps(t_model, Stmt[2])
                            THEN t_grad[g] \cup
                                     {term \in LossTerms(Stmt[2]) :
                                         g \in TermDeps(t_model, term)}
                            ELSE t_grad[g]]
            /\ t_ops' = Append(t_ops, Stmt)
            /\ t_k' = t_k + 1
            /\ UNCHANGED <<t_pc, t_err>>
    /\ UNCHANGED <<t_args, t_n_batches, t_epoch, t_i, t_recon_loss, t_log,
                   t_steps, t_applied, t_batch, t_loss>>
    /\ UNCHANGED <<rvars, cvars, qvars, svars>>

\* an optimizer's step(): its parameters move along their stored gradients
OptimizerStep ==
    /\ AtStmt("step")
    /\ t_steps' = [t_steps EXCEPT ![Stmt[2]] = @ + 1]
    /\ t_applied' = [t_applied EXCEPT ![Stmt[2]] =
                        UNION {t_grad[g] : g \in OptParams(Stmt[2], t_model)}]
    /\ t_ops' = Append(t_ops, Stmt)
    /\ t_k' = t_k + 1
    /\ UNCHANGED <<t_args, t_pc, t_err, t_n_batches, t_epoch, t_i,
                   t_recon_loss, t_log, t_grad, t_batch, t_loss>>
    /\ UNCHANGED <<rvars, cvars, qvars, svars>>

\* loss_dict2 = model.adversarial_loss(batch)
AdversarialLoss ==
    /\ AtStmt("adversarial_loss")
    /\ t_ops' = Append(t_ops, Stmt)
    /\ t_k' = t_k + 1
    /\ UNCHANGED <<t_args, t_pc, t_err, t_n_batches, t_epoch, t_i,
                   t_recon_loss, t_log, t_grad, t_steps, t_applied, t_batch,
                   t_loss>>
    /\ UNCHANGED <<rvars, cvars, qvars, svars>>

\* model.zero_grad() at the end of the loop body
BatchZeroGrad ==
    /\ AtStmt("zero_grad")
    /\ t_grad' = ZeroGrad(t_grad)
    /\ t_ops' = Append(t_ops, Stmt)
    /\ t_k' = t_k + 1
    /\ UNCHANGED <<t_args, t_pc, t_err, t_n_batches, t_epoch, t_i,
                   t_recon_loss, t_log, t_steps, t_applied, t_batch, t_loss>>
    /\ UNCHANGED <<rvars, cvars, qvars, svars>>

\* recon_loss.append(...) and the second list's append: the minibatch is done
BatchEnd ==
    /\ t_pc = "step"
    /\ t_k > Len(Body(t_fn))
    /\ t_recon_loss' = Append(t_recon_loss, t_batch.patch)
    /\ t_i' = t_i + 1
    /\ t_k' = 0
    /\ t_pc' = "batch"
    /\ UNCHANGED <<t_args, t_err, t_n_batches, t_epoch, t_log, t_grad, t_steps,
                   t_applied, t_ops, t_batch, t_loss>>
    /\ UNCHANGED <<rvars, cvars, qvars, svars>>

\* what building log_str raises: sum([]) is the int 0, which has no .item()
LogError(losses) == IF Len(losses) = 0 THEN "AttributeError" ELSE ""

\* lines 739-745 and 842-847: the epoch's line is built and written
EpochLog ==
    /\ t_pc = "batch"
    /\ t_i >= t_n_batches
    /\ LET e == LogError(t_recon_loss) IN
       IF e # ""
       THEN t_pc' = "raised" /\ t_err' = e /\ UNCHANGED <<t_epoch, t_log>>
       ELSE /\ t_log' = Append(t_log,
                    [line |-> "log_str", epoch |-> t_epoch,
                     dest |-> IF t_log_file THEN "file" ELSE "stdout"])
            /\ t_epoch' = t_epoch + 1
            /\ t_pc' = "epoch"
            /\ UNCHANGED t_err
    /\ UNCHANGED <<t_args, t_n_batches, t_i, t_recon_loss, t_grad, t_steps,
                   t_applied, t_k, t_ops, t_batch, t_loss>>
    /\ UNCHANGED <<rvars, cvars, qvars, svars>>

\* return model
TrainReturn ==
    /\ t_pc = "epoch"
    /\ t_epoch >= t_n_epochs
    /\ t_pc' = "done"
    /\ UNCHANGED <<t_args, t_err, t_n_batches, t_epoch, t_i, t_recon_loss,
                   t_log, t_grad, t_steps, t_applied, t_k, t_ops, t_batch,
                   t_loss>>
    /\ UNCHANGED <<rvars, cvars, qvars, svars>>

NextTrain ==
    \/ TrainEnter \/ EpochStart \/ BatchForward \/ Backward \/ OptimizerStep
    \/ AdversarialLoss \/ BatchZeroGrad \/ BatchEnd \/ EpochLog \/ TrainReturn

SpecTrain == InitTrain /\ [][NextTrain]_vars

\* ------------------------------------ building a model from a configuration
\* the keys the model classes read from params
ConfigKeys ==
    {"PATCH_STDS", "VAE_NUM_HIDDENS", "VAE_NUM_RESIDUAL_LAYERS",
     "VAE_NUM_RESIDUAL_HIDDENS", "VAE_NUM_EMBEDDINGS",
     "VAE_COMMITEMENT_COST", "VAE_ALPHA", "VAE_SAMPLING_K"}

\* the keys the constructor of a class reads
ReadKeys(model) ==
    IF model = "VQ_VAE" THEN ConfigKeys \ {"VAE_SAMPLING_K"}
    ELSE IF model = "IWAE"
    THEN ConfigKeys \ {"VAE_NUM_EMBEDDINGS", "VAE_COMMITEMENT_COST"}
    ELSE ConfigKeys \ {"VAE_NUM_EMBEDDINGS", "VAE_COMMITEMENT_COST",
                       "VAE_SAMPLING_K"}

\* DynaMorphConfig.__getitem__: a key that is not there prints a line and
\* gives None
GetItem(missing, key) == IF key \in missing THEN "None" ELSE "value"

\* the numbers of residual layers a configuration may ask for
ResidualLayers == {0, 2}

\* what the constructor raises: None where a size is needed (len(None),
\* None//2, range(None), nn.Embedding(None, ...)), t.from_numpy of a Python
\* list, and a residual layer with None channels when the block has a layer
ConstructError(model, missing, stds, layers) ==
    IF GetItem(missing, "PATCH_STDS") = "None" THEN "TypeError"
    ELSE IF stds = "list" THEN "TypeError"
    ELSE IF GetItem(missing, "VAE_NUM_HIDDENS") = "None" THEN "TypeError"
    ELSE IF GetItem(missing, "VAE_NUM_RESIDUAL_LAYERS") = "None"
    THEN "TypeError"
    ELSE IF layers > 0 /\ GetItem(missing, "VAE_NUM_RESIDUAL_HIDDENS") = "None"
    THEN "TypeError"
    ELSE IF "VAE_NUM_EMBEDDINGS" \in ReadKeys(model)
            /\ GetItem(missing, "VAE_NUM_EMBEDDINGS") = "None"
    THEN "TypeError"
    ELSE ""

\* what the forward pass of a built model raises: None where a number is
\* multiplied (commitment_cost, alpha when a relation block is given) or
\* counted (range(self.k))
CallError(model, missing, has_rel) ==
    IF model = "VQ_VAE" /\ GetItem(missing, "VAE_COMMITEMENT_COST") = "None"
    THEN "TypeError"
    ELSE IF model = "IWAE" /\ GetItem(missing, "VAE_SAMPLING_K") = "None"
    THEN "TypeError"
    ELSE IF model # "IWAE" /\ has_rel /\ GetItem(missing, "VAE_ALPHA") = "None"
    THEN "TypeError"
    ELSE ""

\* any class, any set of keys missing from the configuration, PATCH_STDS a
\* list or an array, no residual layer or two
InitConfig ==
    /\ ReorderIdle
    /\ ScriptsIdle
    /\ TrainIdle
    /\ QuantIdle
    /\ c_model \in Models
    /\ c_missing \in SUBSET ConfigKeys
    /\ c_has_rel \in BOOLEAN
    /\ c_stds \in IF "PATCH_STDS" \in c_missing THEN {"none"}
                  ELSE {"list", "ndarray"}
    /\ c_layers \in IF "VAE_NUM_RESIDUAL_LAYERS" \in c_missing THEN {0}
                    ELSE ResidualLayers
    /\ c_pc = "start"
    /\ c_err = ""
    /\ c_where = ""

\* model = VQ_VAE(params) (or VAE, IWAE, AAE)
Construct ==
    /\ c_pc = "start"
    /\ LET e == ConstructError(c_model, c_missing, c_stds, c_layers) IN
       IF e # ""
       THEN c_pc' = "raised" /\ c_err' = e /\ c_where' = "construction"
       ELSE c_pc' = "built" /\ UNCHANGED <<c_err, c_where>>
    /\ UNCHANGED <<c_model, c_missing, c_has_rel, c_stds, c_layers>>
    /\ UNCHANGED <<rvars, tvars, qvars, svars>>

\* model(batch, time_matching_mat=..., batch_mask=...): the first forward pass
Call ==
    /\ c_pc = "built"
    /\ LET e == CallError(c_model, c_missing, c_has_rel) IN
       IF e # ""
       THEN c_pc' = "raised" /\ c_err' = e /\ c_where' = "forward"
       ELSE c_pc' = "called" /\ UNCHANGED <<c_err, c_where>>
    /\ UNCHANGED <<c_model, c_missing, c_has_rel, c_stds, c_layers>>
    /\ UNCHANGED <<rvars, tvars, qvars, svars>>

NextConfig == Construct \/ Call

SpecConfig == InitConfig /\ [][NextConfig]_vars

\* ------------------------------------------------------- VectorQuantizer
\* the shapes [Batch, embedding_dim, H, W] of the latent grids tried: two
\* batch elements of one position, one batch element of two positions
GridShapes == {<<2, 2, 1, 1>>, <<1, 2, 1, 2>>}

\* the index tuples of a tensor of a shape (a sequence of sizes)
RECURSIVE Index(_)
Index(shape) ==
    IF Len(shape) = 0 THEN {<<>>}
    ELSE {Append(i, k) : i \in Index(SubSeq(shape, 1, Len(shape) - 1)),
                         k \in 0..(shape[Len(shape)] - 1)}

\* the tensors are float32 (nn.Embedding and the encoder's output): a
\* value has a significand of MantissaBits bits
MantissaBits == 24

\* the number of bits of a natural number
RECURSIVE BitLen(_)
BitLen(n) == IF n = 0 THEN 0 ELSE 1 + BitLen(n \div 2)

Abs(n) == IF n < 0 THEN 0 - n ELSE n

\* round to nearest, ties to even: the quotient quo of a division by unit
\* that left the remainder rest, rounded
Nearest(quo, rest, unit) ==
    IF 2 * rest > unit \/ (2 * rest = unit /\ quo % 2 = 1) THEN quo + 1
    ELSE quo

\* the multiple of unit nearest to the integer n
RoundTo(n, unit) ==
    (IF n < 0 THEN 0 - unit ELSE unit)
        * Nearest(Abs(n) \div unit, Abs(n) % unit, unit)

\* the float32 value an operation returns whose exact result is the
\* integer n
Fl(n) ==
    IF Abs(n) < 2^MantissaBits THEN n
    ELSE RoundTo(n, 2^(BitLen(Abs(n)) - MantissaBits))

\* a square of such a value takes more than 32 bits: <<h, l>> stands for
\* the number h * Limb + l, 0 <= l < Limb (the entries tried are below
\* Limb)
LimbBits == MantissaBits + 2

Limb == 2^LimbBits

HalfLimb == 2^(LimbBits \div 2)

WNorm(h, l) == <<h + (l \div Limb), l % Limb>>

\* hi * Limb + mid * HalfLimb + lo
WParts(hi, mid, lo) ==
    WNorm(hi + (mid \div HalfLimb), lo + (mid % HalfLimb) * HalfLimb)

\* the exact product of two natural numbers below Limb
WMul(a, b) ==
    WParts((a \div HalfLimb) * (b \div HalfLimb),
           (a \div HalfLimb) * (b % HalfLimb)
               + (a % HalfLimb) * (b \div HalfLimb),
           (a % HalfLimb) * (b % HalfLimb))

\* the exact sum
WAdd(x, y) == WNorm(x[1] + y[1], x[2] + y[2])

\* the negation (h is negative for a negative number)
WNeg(x) ==
    IF x[2] = 0 THEN <<0 - x[1], 0>> ELSE <<0 - x[1] - 1, Limb - x[2]>>

WLess(x, y) == x[1] < y[1] \/ (x[1] = y[1] /\ x[2] < y[2])

\* the number rnd * unit, where scale * unit = Limb
WScaled(rnd, unit, scale) == <<rnd \div scale, (rnd % scale) * unit>>

\* x >= Limb rounded to a multiple of unit <= Limb, scale * unit = Limb
WRoundLow(x, unit, scale) ==
    WScaled(Nearest(x[1] * scale + (x[2] \div unit), x[2] % unit, unit),
            unit, scale)

\* x >= Limb rounded to a multiple of scale * Limb, scale > 1: a low limb
\* that is not zero decides what would be a tie of the high limb
WRoundHigh(x, scale) ==
    <<scale * Nearest(x[1] \div scale,
                      2 * (x[1] % scale) + (IF x[2] > 0 THEN 1 ELSE 0),
                      2 * scale),
      0>>

\* x >= Limb rounded to a multiple of 2^shift
WRound(x, shift) ==
    IF shift <= LimbBits THEN WRoundLow(x, 2^shift, 2^(LimbBits - shift))
    ELSE WRoundHigh(x, 2^(shift - LimbBits))

\* the float32 value an operation returns whose exact result is the
\* number x >= 0
WFl(x) ==
    IF x[1] = 0 THEN WNorm(0, Fl(x[2]))
    ELSE WRound(x, LimbBits + BitLen(x[1]) - MantissaBits)

\* the values tried as entries of the codebook
CodeVals == {0, 1}

\* the values tried as entries of the latent grid: those, and a power of
\* two so large that its neighbours are not float32 values
FloatVals == CodeVals \cup {2^(MantissaBits + 1)}

\* self.w.weight: num_embeddings rows of embedding_dim values
Codebooks(K, D) == [0..(K - 1) -> [0..(D - 1) -> CodeVals]]

\* a latent grid and a codebook of the same embedding_dim
InitQuant ==
    /\ ReorderIdle
    /\ ScriptsIdle
    /\ TrainIdle
    /\ ConfigIdle
    /\ vq_shape \in GridShapes
    /\ vq_x \in [Index(vq_shape) -> FloatVals]
    /\ \E K \in 1..MaxCodes : vq_w \in Codebooks(K, vq_shape[2])
    /\ vq_pc = "start"
    /\ vq_indices = <<>>
    /\ vq_decoded = <<>>
    /\ vq_out = <<>>
    /\ vq_err = ""

\* d**2 in float32, for an integer d
Square(d) == WFl(WMul(Abs(d), Abs(d)))

\* (a - b)**2 in float32: the difference is rounded, then its square
SqDiff(a, b) == Square(Fl(a - b))

\* t.sum of f[0..n-1] in float32, every partial sum rounded (with the two
\* terms of GridShapes there is one addition, so no order to choose)
RECURSIVE FlSum(_, _)
FlSum(f, n) ==
    IF n = 1 THEN f[0] ELSE WFl(WAdd(FlSum(f, n - 1), f[n - 1]))

\* the entry [b, k, h, w] of distances, given as i: the squared difference
\* to row k summed over dim 2
Distance(x, w, shape, i) ==
    FlSum([d \in 0..(shape[2] - 1) |->
              SqDiff(x[<<i[1], d, i[3], i[4]>>], w[i[2]][d])],
          shape[2])

\* distances, of shape [B, num_embeddings, H, W]
Distances(x, w, shape) ==
    [i \in Index(<<shape[1], Cardinality(DOMAIN w), shape[3], shape[4]>>) |->
        Distance(x, w, shape, i)]

\* the last index that holds the smallest value
ArgMaxLastMin(f) ==
    CHOOSE k \in DOMAIN f :
        /\ \A j \in DOMAIN f : ~WLess(f[j], f[k])
        /\ \A j \in DOMAIN f : f[j] = f[k] => j <= k

\* t.argmax over one dimension: the first index that holds the largest value
ArgMax(f) ==
    CHOOSE k \in DOMAIN f :
        /\ \A j \in DOMAIN f : ~WLess(f[k], f[j])
        /\ \A j \in DOMAIN f : f[j] = f[k] => k <= j

\* encoding_indices = t.argmax(-distances, 1), of shape [B, H, W]
EncodingIndices(dist, w, shape) ==
    [i \in Index(<<shape[1], shape[3], shape[4]>>) |->
        ArgMax([k \in DOMAIN w |-> WNeg(dist[<<i[1], k, i[2], i[3]>>])])]

\* self.w(encoding_indices): a trailing dimension holds the selected row
Embedding(w, ind) ==
    [i \in {Append(j, d) : j \in DOMAIN ind, d \in DOMAIN w[0]} |->
        w[ind[SubSeq(i, 1, Len(i) - 1)]][i[Len(i)]]]

\* an index tuple with (0-based) dimensions a and b exchanged
Swap(i, a, b) ==
    [k \in DOMAIN i |->
        IF k = a + 1 THEN i[b + 1] ELSE IF k = b + 1 THEN i[a + 1] ELSE i[k]]

\* tensor.transpose(a, b)
Transpose(tn, a, b) ==
    [i \in {Swap(j, a, b) : j \in DOMAIN tn} |-> tn[Swap(i, a, b)]]

\* the second transpose is left out
QuantizedOneTranspose(w, ind) == Transpose(Embedding(w, ind), 2, 3)

\* self.w(encoding_indices).transpose(2, 3).transpose(1, 2)
Quantized(w, ind) == Transpose(Transpose(Embedding(w, ind), 2, 3), 1, 2)

\* encode_inputs(inputs)
EncodeInputs ==
    /\ vq_pc = "start"
    /\ \E dist \in {Distances(vq_x, vq_w, vq_shape)} :
           vq_indices' = EncodingIndices(dist, vq_w, vq_shape)
    /\ vq_pc' = "encoded"
    /\ UNCHANGED <<vq_shape, vq_x, vq_w, vq_decoded, vq_out, vq_err>>
    /\ UNCHANGED <<rvars, tvars, cvars, svars>>

\* decode_inputs(encoding_indices)
DecodeInputs ==
    /\ vq_pc = "encoded"
    /\ vq_decoded' = Quantized(vq_w, vq_indices)
    /\ vq_pc' = "decoded"
    /\ UNCHANGED <<vq_shape, vq_x, vq_w, vq_indices, vq_out, vq_err>>
    /\ UNCHANGED <<rvars, tvars, cvars, svars>>

\* forward(inputs) up to output_quantized, for the same inputs: the
\* subtraction and the addition of line 69 are each rounded to float32
\* (the shapes compared by the assert are always equal, so that running
\* python with -O, which removes it, changes nothing here)
QuantForward ==
    /\ vq_pc = "decoded"
    /\ \E dist \in {Distances(vq_x, vq_w, vq_shape)} :
       \E ind \in {EncodingIndices(dist, vq_w, vq_shape)} :
       \E qz \in {Quantized(vq_w, ind)} :
           IF DOMAIN qz # DOMAIN vq_x
           THEN /\ vq_pc' = "raised"
                /\ vq_err' = "AssertionError"
                /\ UNCHANGED vq_out
           ELSE /\ vq_out' = [encoding_indices |-> ind,
                              quantized |-> qz,
                              output_quantized |->
                                  [i \in DOMAIN vq_x |->
                                      Fl(vq_x[i] + Fl(qz[i] - vq_x[i]))]]
                /\ vq_pc' = "forwarded"
                /\ UNCHANGED vq_err
    /\ UNCHANGED <<vq_shape, vq_x, vq_w, vq_indices, vq_decoded>>
    /\ UNCHANGED <<rvars, tvars, cvars, svars>>

NextQuant == EncodeInputs \/ DecodeInputs \/ QuantForward

SpecQuant == InitQuant /\ [][NextQuant]_vars

Reorder == Enter \/ DrawSingleton \/ DrawTrajectory \/ BfsStep \/ BfsEnd \/ Build

Next == Reorder

Spec == Init /\ [][Next]_vars

SpecBad == InitBad /\ [][Next]_vars

NextTwice == Reorder \/ Again

SpecTwice == InitTwice /\ [][NextTwice]_vars

SpecScenarioA == InitScenarioA /\ [][Next]_vars

\* ------------------------------------------------- params.DynaMorphConfig
\* default_model_parameters as the module is loaded, cut down to two of its
\* keys; TRAIN_LOG_FILE is a key the loops read that it does not hold
DefaultModelParameters ==
    [k \in {"TRAIN_BATCH_SIZE", "VAE_ALPHA"} |->
        IF k = "TRAIN_BATCH_SIZE" THEN TRAIN_BATCH_SIZE ELSE VAE_ALPHA]

ParamKeys == {"TRAIN_BATCH_SIZE", "VAE_ALPHA", "TRAIN_LOG_FILE"}

ParamVals == 1..MaxParamVal

\* the dicts a caller may hand to update
UpdateDicts ==
    UNION {[K -> ParamVals] : K \in SUBSET ParamKeys \ {{}}}

\* d[key] = value on a dict object
SetKey(d, key, value) ==
    [k \in DOMAIN d \cup {key} |-> IF k = key THEN value ELSE d[k]]

\* the module is loaded: its dict exists and no instance does
InitParams ==
    /\ ReorderIdle
    /\ TrainIdle
    /\ ConfigIdle
    /\ QuantIdle
    /\ MainIdle
    /\ YamlIdle
    /\ PreprocIdle
    /\ p_heap = [o \in {"default_model_parameters"} |-> DefaultModelParameters]
    /\ p_objs = <<>>
    /\ p_last = NoOp
    /\ p_pc = "run"

\* DynaMorphConfig.__init__: _config is bound to the module's dict itself
New ==
    /\ p_pc = "run"
    /\ Len(p_objs) < MaxInst
    /\ p_objs' = Append(p_objs, [_config |-> "default_model_parameters"])
    /\ p_last' = [op |-> "__init__", obj |-> Len(p_objs) + 1]
    /\ UNCHANGED <<p_heap, p_pc>>
    /\ UNCHANGED <<corevars, mvars, yvars, ivars>>

\* DynaMorphConfig.__getitem__ on instance i: <<>> stands for None
GetItemOf(heap, objs, i, key) ==
    LET d == heap[objs[i]._config]
    IN  IF key \in DOMAIN d THEN <<d[key]>> ELSE <<>>

\* DynaMorphConfig.__setitem__ on instance i
SetItem ==
    /\ p_pc = "run"
    /\ \E i \in 1..Len(p_objs), key \in ParamKeys, value \in ParamVals :
          /\ p_heap' = [p_heap EXCEPT ![p_objs[i]._config] =
                            SetKey(@, key, value)]
          /\ p_last' = [op |-> "__setitem__", obj |-> i]
    /\ UNCHANGED <<p_objs, p_pc>>
    /\ UNCHANGED <<corevars, mvars, yvars, ivars>>

\* for k in update_dict: self._config[k] = update_dict[k]
RECURSIVE UpdateKeys(_, _, _)
UpdateKeys(d, update_dict, todo) ==
    IF todo = {} THEN d
    ELSE LET k == CHOOSE x \in todo : TRUE
         IN  UpdateKeys(SetKey(d, k, update_dict[k]), update_dict, todo \ {k})

\* DynaMorphConfig.update on instance i
Update ==
    /\ p_pc = "run"
    /\ \E i \in 1..Len(p_objs), update_dict \in UpdateDicts :
          /\ p_heap' = [p_heap EXCEPT ![p_objs[i]._config] =
                            UpdateKeys(@, update_dict, DOMAIN update_dict)]
          /\ p_last' = [op |-> "update", obj |-> i]
    /\ UNCHANGED <<p_objs, p_pc>>
    /\ UNCHANGED <<corevars, mvars, yvars, ivars>>

NextParams == New \/ SetItem \/ Update

SpecParams == InitParams /\ [][NextParams]_vars

\* --------------------------------------------- run_patch.py and run_VAE.py
\* the sites are numbered; s[:2], the well of a site, is shared by sites 1
\* and 2, by sites 3 and 4, and so on
AllSites == 1..MaxSites

WellOf(s) == (s + 1) \div 2

\* the lists of sites a main may loop over: --fov as given (a site may be
\* named more than once) or the names listed
SiteLists == UNION {[1..n -> AllSites] : n \in 0..MaxSites}

\* what a path given on the command line is: a directory, nothing, or a
\* regular file
Paths == {"dir", "missing", "file"}

\* what os.listdir(path) raises
ListdirError(path) ==
    IF path = "missing" THEN "FileNotFoundError"
    ELSE IF path = "file" THEN "NotADirectoryError"
    ELSE ""

Methods(prog) ==
    IF prog = "run_patch" THEN {"extract_patches", "build_trajectories"}
    ELSE {"assemble", "process", "trajectory_matching"}

\* inputs: the parsed arguments (a directory given or not, --fov given or
\* not, --gpus, the number of --weights paths, --gpu) and the file system:
\* the sites that --fov names, in the order typed and with any repeats, or,
\* without --fov, the names the raw directory holds, each once, in the order
\* the program receives them (os.listdir's, or list(set(...))'s in run_VAE),
\* those of them that have both files run_patch looks for, whether the
\* working directory holds any entry (it is what os.listdir(None) lists),
\* and what the path given as --raw is: a directory, nothing, or a regular
\* file ("none" when --raw is not given)
InitMain ==
    /\ ReorderIdle
    /\ TrainIdle
    /\ ConfigIdle
    /\ QuantIdle
    /\ ParamsIdle
    /\ YamlIdle
    /\ PreprocIdle
    /\ m_prog \in {"run_patch", "run_VAE"}
    /\ m_args \in [method : Methods(m_prog),
                   raw : BOOLEAN,
                   supplementary : BOOLEAN,
                   fov : BOOLEAN,
                   gpus : IF m_prog = "run_patch" THEN 0..MaxGpus ELSE {1},
                   weights : IF m_prog = "run_VAE" THEN 0..MaxWeights ELSE {0},
                   gpu : IF m_prog = "run_VAE" THEN 0..MaxGpus ELSE {0}]
    /\ m_fs \in [sites : SiteLists, seg : SUBSET AllSites, cwd : BOOLEAN,
                 raw : IF m_args.raw THEN Paths ELSE {"none"}]
    /\ m_fs.seg \subseteq Range(m_fs.sites)
    /\ m_args.fov => m_fs.sites # <<>>
    /\ ~m_args.fov => Injective(m_fs.sites)
    /\ m_fs.raw # "dir" =>
           (m_fs.seg = {} /\ (m_args.fov \/ m_fs.sites = <<>>))
    /\ m_prog = "run_VAE" => m_fs.seg = {}
    /\ m_fs.cwd => (m_prog = "run_patch" /\ ~m_args.raw /\ ~m_args.fov)
    /\ m_pc = "start"
    /\ m_err = ""
    /\ m_sites = <<>>
    /\ m_workers = <<>>
    /\ m_i = 0
    /\ m_todo = <<>>

\* run_patch, lines 47-57: the directories each method asks for
PatchArgError(a) ==
    IF a.method = "extract_patches"
    THEN IF ~a.raw THEN "AttributeError"
         ELSE IF ~a.supplementary THEN "AttributeError" ELSE ""
    ELSE IF ~a.supplementary THEN "AttributeError" ELSE ""

PatchValidate ==
    /\ m_prog = "run_patch"
    /\ m_pc = "start"
    /\ LET e == PatchArgError(m_args)
       IN  IF e # ""
           THEN m_pc' = "raised" /\ m_err' = e
           ELSE m_pc' = "select" /\ UNCHANGED m_err
    /\ UNCHANGED <<m_prog, m_args, m_fs, m_sites, m_workers, m_i, m_todo>>
    /\ UNCHANGED <<corevars, pvars, yvars, ivars>>

\* lines 59-62: sites = arguments_.fov, or the directories listed in raw.
\* With raw = None os.listdir lists the working directory
ListSites(a, fs) ==
    IF a.fov \/ a.raw THEN fs.sites ELSE <<>>

\* what line 62 raises: os.listdir(raw) when raw is no directory, and
\* os.path.join(raw, site) with raw = None for the first entry listed
ListError(a, fs) ==
    IF ~a.fov /\ a.raw /\ ListdirError(fs.raw) # ""
    THEN ListdirError(fs.raw)
    ELSE IF ~a.fov /\ ~a.raw /\ fs.cwd THEN "TypeError" ELSE ""

\* lines 65-66: the sites with both files in raw; os.path.join(raw, ...)
\* with raw = None raises for the first site
SegmentError(a, sites) ==
    IF ~a.raw /\ Len(sites) > 0 THEN "TypeError" ELSE ""

SegmentSites(sites, fs) ==
    LET Both(s) == s \in fs.seg IN SelectSeq(sites, Both)

\* lines 67-68
NoSitesError(segment_sites) ==
    IF Len(segment_sites) = 0 THEN "AttributeError" ELSE ""

PatchSelect ==
    /\ m_prog = "run_patch"
    /\ m_pc = "select"
    /\ LET sites == ListSites(m_args, m_fs)
           segment_sites == SegmentSites(sites, m_fs)
           e == IF ListError(m_args, m_fs) # ""
                THEN ListError(m_args, m_fs)
                ELSE IF SegmentError(m_args, sites) # ""
                THEN SegmentError(m_args, sites)
                ELSE NoSitesError(segment_sites)
       IN  IF e # ""
           THEN m_pc' = "raised" /\ m_err' = e /\ UNCHANGED m_sites
           ELSE m_pc' = "spawn" /\ m_sites' = segment_sites
                /\ UNCHANGED m_err
    /\ UNCHANGED <<m_prog, m_args, m_fs, m_workers, m_i, m_todo>>
    /\ UNCHANGED <<corevars, pvars, yvars, ivars>>

\* the end point n is left out, as np.linspace(..., endpoint=False) does
SepNoEndpoint(n, n_gpu) ==
    [k \in 0..n_gpu |-> (k * n) \div (n_gpu + 1)]

\* np.linspace(0, n, n_gpu + 1).astype(int): n_gpu + 1 evenly spaced numbers
\* from 0 to n, truncated
Sep(n, n_gpu) ==
    [k \in 0..n_gpu |-> IF n_gpu = 0 THEN 0 ELSE (k * n) \div n_gpu]

\* lines 75-80: worker i is built on its slice of the sites and started; its
\* run() sets CUDA_VISIBLE_DEVICES to gpuid
PatchStart ==
    /\ m_prog = "run_patch"
    /\ m_pc = "spawn"
    /\ m_i < m_args.gpus
    /\ LET sep == Sep(Len(m_sites), m_args.gpus)
       IN  m_workers' = Append(m_workers,
               [device |-> m_i,
                sites |-> SubSeq(m_sites, sep[m_i] + 1, sep[m_i + 1]),
                well |-> 0, weight |-> 0, state |-> "alive"])
    /\ m_i' = m_i + 1
    /\ UNCHANGED <<m_prog, m_args, m_fs, m_pc, m_err, m_sites, m_todo>>
    /\ UNCHANGED <<corevars, pvars, yvars, ivars>>

\* the loop over range(n_gpu) is over
PatchSpawned ==
    /\ m_prog = "run_patch"
    /\ m_pc = "spawn"
    /\ m_i >= m_args.gpus
    /\ m_pc' = "join"
    /\ m_i' = 0
    /\ UNCHANGED <<m_prog, m_args, m_fs, m_err, m_sites, m_workers, m_todo>>
    /\ UNCHANGED <<corevars, pvars, yvars, ivars>>

\* lines 81-82: p.join() returns once the worker has terminated
PatchJoin ==
    /\ m_prog = "run_patch"
    /\ m_pc = "join"
    /\ m_i < Len(m_workers)
    /\ m_workers[m_i + 1].state = "terminated"
    /\ m_i' = m_i + 1
    /\ UNCHANGED <<m_prog, m_args, m_fs, m_pc, m_err, m_sites, m_workers,
                   m_todo>>
    /\ UNCHANGED <<corevars, pvars, yvars, ivars>>

PatchReturn ==
    /\ m_prog = "run_patch"
    /\ m_pc = "join"
    /\ m_i >= Len(m_workers)
    /\ m_pc' = "done"
    /\ UNCHANGED <<m_prog, m_args, m_fs, m_err, m_sites, m_workers, m_i,
                   m_todo>>
    /\ UNCHANGED <<corevars, pvars, yvars, ivars>>

\* Worker.run of either program returns (or fails): the process terminates
WorkerExit ==
    /\ m_pc # "off"
    /\ \E k \in 1..Len(m_workers) :
          /\ m_workers[k].state = "alive"
          /\ m_workers' = [m_workers EXCEPT ![k].state = "terminated"]
    /\ UNCHANGED <<m_prog, m_args, m_fs, m_pc, m_err, m_sites, m_i, m_todo>>
    /\ UNCHANGED <<corevars, pvars, yvars, ivars>>

\* run_VAE, lines 35-56: the directories and weights each method asks for
VaeArgError(a) ==
    IF a.method = "process"
    THEN IF ~a.raw THEN "AttributeError"
         ELSE IF a.weights = 0 THEN "AttributeError" ELSE ""
    ELSE IF ~a.raw THEN "AttributeError"
         ELSE IF ~a.supplementary THEN "AttributeError" ELSE ""

VaeValidate ==
    /\ m_prog = "run_VAE"
    /\ m_pc = "start"
    /\ LET e == VaeArgError(m_args)
       IN  IF e # ""
           THEN m_pc' = "raised" /\ m_err' = e
           ELSE m_pc' = "select" /\ UNCHANGED m_err
    /\ UNCHANGED <<m_prog, m_args, m_fs, m_sites, m_workers, m_i, m_todo>>
    /\ UNCHANGED <<corevars, pvars, yvars, ivars>>

\* the orders in which a set may be iterated
Orders(S) ==
    {f \in [1..Cardinality(S) -> S] :
        \A a, b \in 1..Cardinality(S) : f[a] = f[b] => a = b}

\* for well in wells: for weight in weights: the pairs in loop order
Todo(order, n_weights) ==
    [k \in 1..(Len(order) * n_weights) |->
        <<order[((k - 1) \div n_weights) + 1],
          ((k - 1) % n_weights) + 1>>]

\* lines 58-66: the sites (--fov as given, or the names listed in the order
\* list(set(...)) yields) and wells = set(s[:2] for s in sites), which the
\* loop iterates in an order of the set's choosing
VaeSelect ==
    /\ m_prog = "run_VAE"
    /\ m_pc = "select"
    /\ IF ~m_args.fov /\ ListdirError(m_fs.raw) # ""
       THEN /\ m_pc' = "raised"
            /\ m_err' = ListdirError(m_fs.raw)
            /\ UNCHANGED <<m_sites, m_todo>>
       ELSE /\ m_sites' = m_fs.sites
            /\ \E order \in Orders({WellOf(s) : s \in Range(m_fs.sites)}) :
                  m_todo' = Todo(order, m_args.weights)
            /\ m_pc' = "spawn"
            /\ UNCHANGED m_err
    /\ UNCHANGED <<m_prog, m_args, m_fs, m_workers, m_i>>
    /\ UNCHANGED <<corevars, pvars, yvars, ivars>>

\* lines 74-77: a worker for the well's sites and one weight is started; it
\* inherits CUDA_VISIBLE_DEVICES = gpu from main
VaeStart ==
    /\ m_prog = "run_VAE"
    /\ m_pc = "spawn"
    /\ m_todo # <<>>
    /\ LET well == Head(m_todo)[1]
           InWell(s) == WellOf(s) = well
       IN  m_workers' = Append(m_workers,
               [device |-> m_args.gpu,
                sites |-> SelectSeq(m_sites, InWell),
                well |-> well, weight |-> Head(m_todo)[2],
                state |-> "alive"])
    /\ m_pc' = "join"
    /\ UNCHANGED <<m_prog, m_args, m_fs, m_err, m_sites, m_i, m_todo>>
    /\ UNCHANGED <<corevars, pvars, yvars, ivars>>

\* line 78: p.join() returns once the worker has terminated
VaeJoin ==
    /\ m_prog = "run_VAE"
    /\ m_pc = "join"
    /\ m_workers[Len(m_workers)].state = "terminated"
    /\ m_todo' = Tail(m_todo)
    /\ m_pc' = "spawn"
    /\ UNCHANGED <<m_prog, m_args, m_fs, m_err, m_sites, m_workers, m_i>>
    /\ UNCHANGED <<corevars, pvars, yvars, ivars>>

VaeReturn ==
    /\ m_prog = "run_VAE"
    /\ m_pc = "spawn"
    /\ m_todo = <<>>
    /\ m_pc' = "done"
    /\ UNCHANGED <<m_prog, m_args, m_fs, m_err, m_sites, m_workers, m_i,
                   m_todo>>
    /\ UNCHANGED <<corevars, pvars, yvars, ivars>>

NextMain ==
    \/ PatchValidate
    \/ PatchSelect
    \/ PatchStart
    \/ PatchSpawned
    \/ PatchJoin
    \/ PatchReturn
    \/ WorkerExit
    \/ VaeValidate
    \/ VaeSelect
    \/ VaeStart
    \/ VaeJoin
    \/ VaeReturn

SpecMain == InitMain /\ [][NextMain]_vars

\* ------------------------------------------- configs/config_reader.py
\* the class attributes of YamlReader as the module defines them
ClassGroups ==
    [files      |-> {"raw_dirs", "supp_dirs", "train_dirs", "model_dir"},
     preprocess |-> {"cs", "cs_mask", "input_shape", "w_a", "w_t",
                     "channel_mean", "channel_std"},
     model      |-> {"model", "num_inputs", "num_hiddens",
                     "num_residual_hiddens", "num_residual_layers",
                     "num_embeddings", "commitment_cost", "alpha"},
     training   |-> {"epochs", "learning_rate", "batch_size", "GPU", "GPU_ID",
                     "shuffle_data", "transform"}]

\* other contents the four class attributes may be given (by an edit of the
\* class or by a subclass): any sets over two names
EditedGroups == [DOMAIN ClassGroups -> SUBSET {"alpha", "epochs"}]

\* the sections read_config parses
Sections == {"files", "trajectory_relations", "model", "training"}

\* the keys a section of the file may hold: one of each parsed group and one
\* of none
FileKeys == {"model_dir", "num_hiddens", "epochs", "unknown"}

EmptyFile == [s \in Sections |-> {}]

\* the files read: every section is there, with at most MaxFields fields;
\* the value of a field is not looked at and the section keeping it stands
\* for it
YamlFiles ==
    [Sections -> {K \in SUBSET FileKeys : Cardinality(K) <= MaxFields}]

\* inputs: the class as defined, with any file, or an edited class
InitYaml ==
    /\ ReorderIdle
    /\ TrainIdle
    /\ ConfigIdle
    /\ QuantIdle
    /\ ParamsIdle
    /\ MainIdle
    /\ PreprocIdle
    /\ \/ y_groups = ClassGroups /\ y_file \in YamlFiles
       \/ y_groups \in EditedGroups /\ y_file = EmptyFile
    /\ y_config = <<>>
    /\ y_attrs = <<>>
    /\ y_warned = {}
    /\ y_pc = "new"
    /\ y_err = ""
    /\ y_yaml \in {"5", "6"}

\* _check_overlapping_attr: what it raises
CheckOverlappingAttr(groups) ==
    IF (groups.files \cap groups.preprocess \cap groups.model
            \cap groups.training) # {}
    THEN "AttributeError" ELSE ""

\* YamlReader.__init__
YamlInit ==
    /\ y_pc = "new"
    /\ LET e == CheckOverlappingAttr(y_groups)
       IN  IF e # ""
           THEN y_pc' = "raised" /\ y_err' = e
           ELSE y_pc' = "ready" /\ UNCHANGED y_err
    /\ UNCHANGED <<y_groups, y_file, y_config, y_attrs, y_warned, y_yaml>>
    /\ UNCHANGED <<corevars, pvars, mvars, ivars>>

\* what yaml.load(f) raises: from PyYAML 6 on the Loader argument is
\* required and the call with the stream alone is a TypeError
LoadError(yaml) == IF yaml = "6" THEN "TypeError" ELSE ""

\* read_config: self.config = yaml.load(f)
ReadConfig ==
    /\ y_pc = "ready"
    /\ IF LoadError(y_yaml) # ""
       THEN /\ y_pc' = "raised"
            /\ y_err' = LoadError(y_yaml)
            /\ UNCHANGED y_config
       ELSE /\ y_config' = y_file
            /\ y_pc' = "files"
            /\ UNCHANGED y_err
    /\ UNCHANGED <<y_groups, y_file, y_attrs, y_warned, y_yaml>>
    /\ UNCHANGED <<corevars, pvars, mvars, ivars>>

\* the group each _parse_* method tests the keys of its section against
TestedGroup(section) == "files"

\* the fields of a section that are kept: self.__setattr__(key, value)
Kept(section, config, groups) ==
    config[section] \cap groups[TestedGroup(section)]

SetAttrs(attrs, section, config, groups) ==
    [k \in DOMAIN attrs \cup Kept(section, config, groups) |->
        IF k \in Kept(section, config, groups) THEN section ELSE attrs[k]]

\* the fields of a section that get the 'is not recognized' warning
Warn(warned, section, config, groups) ==
    warned \cup {<<section, k>> :
                    k \in config[section] \ Kept(section, config, groups)}

\* one _parse_* method
Parse(section, next) ==
    /\ y_pc = section
    /\ y_attrs' = SetAttrs(y_attrs, section, y_config, y_groups)
    /\ y_warned' = Warn(y_warned, section, y_config, y_groups)
    /\ y_pc' = next
    /\ UNCHANGED <<y_groups, y_file, y_config, y_err, y_yaml>>
    /\ UNCHANGED <<corevars, pvars, mvars, ivars>>

ParseFiles == Parse("files", "trajectory_relations")

ParseTrajectoryRelations == Parse("trajectory_relations", "model")

ParseModel == Parse("model", "training")

ParseTraining == Parse("training", "done")

NextYaml ==
    \/ YamlInit
    \/ ReadConfig
    \/ ParseFiles
    \/ ParseTrajectoryRelations
    \/ ParseModel
    \/ ParseTraining

SpecYaml == InitYaml /\ [][NextYaml]_vars

\* ----------------------------------------------------------- run_preproc.py
\* how a call of write_raw_to_npy ends: it returns (""), or it raises an
\* exception that is an instance of Exception, or one that is not
\* (KeyboardInterrupt, SystemExit, GeneratorExit)
WriteOutcomes == {"", "Exception", "BaseException"}

\* inputs: --fov given (its entries as typed, at least one) or not (the
\* subdirectories of the input path, each once, in the order os.listdir
\* returns them), how write_raw_to_npy ends on each site, the state of the
\* output directory
InitPreproc ==
    /\ ReorderIdle
    /\ TrainIdle
    /\ ConfigIdle
    /\ QuantIdle
    /\ ParamsIdle
    /\ MainIdle
    /\ YamlIdle
    /\ i_fov \in BOOLEAN
    /\ i_input \in Paths
    /\ i_sites \in SiteLists
    /\ i_fov => i_sites # <<>>
    /\ ~i_fov => IF i_input = "dir" THEN Injective(i_sites)
                 ELSE i_sites = <<>>
    /\ i_write \in [Range(i_sites) -> WriteOutcomes]
    /\ i_outdir \in {"exists", "absent", "blocked"}
    /\ i_todo = <<>>
    /\ i_out = <<>>
    /\ i_pc = "start"
    /\ i_err = ""

\* lines 18-27: the arguments are read and the sites chosen, --fov as given
\* or else the listing of the input path
PreprocStart ==
    /\ i_pc = "start"
    /\ IF ~i_fov /\ ListdirError(i_input) # ""
       THEN /\ i_pc' = "raised"
            /\ i_err' = ListdirError(i_input)
            /\ UNCHANGED i_todo
       ELSE /\ i_todo' = i_sites
            /\ i_pc' = "loop"
            /\ UNCHANGED i_err
    /\ UNCHANGED <<i_fov, i_input, i_sites, i_write, i_outdir, i_out>>
    /\ UNCHANGED <<corevars, pvars, mvars, yvars>>

\* what write_raw_to_npy raises on a site
WriteError(site, write) == write[site]

\* nothing is caught
UncaughtAll(e) == e

\* try: ... except Exception: what leaves the try statement
Uncaught(e) == IF e = "Exception" THEN "" ELSE e

\* the lines one pass of the loop prints
Lines(site, e) ==
    IF e = "" THEN << <<"writing", site>> >>
    ELSE << <<"writing", site>>, <<"error in writing", site>> >>

\* what os.makedirs(outputs) raises, called when the path does not exist
MakedirsError(outdir) == IF outdir = "blocked" THEN "OSError" ELSE ""

\* lines 29-39: one pass of the for loop.  The output directory is made
\* outside the try statement.
Attempt ==
    /\ i_pc = "loop"
    /\ i_todo # <<>>
    /\ IF i_outdir # "exists" /\ MakedirsError(i_outdir) # ""
       THEN /\ i_pc' = "raised"
            /\ i_err' = MakedirsError(i_outdir)
            /\ UNCHANGED <<i_outdir, i_out, i_todo>>
       ELSE /\ i_outdir' = "exists"
            /\ LET site == Head(i_todo)
                   e == WriteError(site, i_write)
               IN  IF Uncaught(e) # ""
                   THEN /\ i_pc' = "raised"
                        /\ i_err' = Uncaught(e)
                        /\ i_out' = i_out \o << <<"writing", site>> >>
                        /\ UNCHANGED i_todo
                   ELSE /\ i_out' = i_out \o Lines(site, e)
                        /\ i_todo' = Tail(i_todo)
                        /\ UNCHANGED <<i_pc, i_err>>
    /\ UNCHANGED <<i_fov, i_input, i_sites, i_write>>
    /\ UNCHANGED <<corevars, pvars, mvars, yvars>>

\* the list is exhausted: main returns
PreprocReturn ==
    /\ i_pc = "loop"
    /\ i_todo = <<>>
    /\ i_pc' = "done"
    /\ UNCHANGED <<i_fov, i_input, i_sites, i_write, i_outdir, i_todo, i_out,
                   i_err>>
    /\ UNCHANGED <<corevars, pvars, mvars, yvars>>

NextPreproc == PreprocStart \/ Attempt \/ PreprocReturn

SpecPreproc == InitPreproc /\ [][NextPreproc]_vars

\* ------------------------------------------------------- derived notions
IsPerm(order, n) == Len(order) = n /\ Range(order) = 0..(n - 1)

\* the 0-based position of index i in the order
Pos(order, i) == (CHOOSE k \in 1..Len(order) : order[k] = i) - 1

\* i and j are an adjacent-frame pair of the relation graph, either direction
AdjPair(i, j) ==
    \E k \in 1..Len(relations) :
        /\ relations[k][3] = 2
        /\ <<relations[k][1], relations[k][2]>> \in {<<i, j>>, <<j, i>>}

RECURSIVE Closure(_)
Closure(S) ==
    LET T == S \cup {j \in 0..(N - 1) : \E i \in S : AdjPair(i, j)} IN
    IF T = S THEN S ELSE Closure(T)

\* the connected component of i in the adjacent-frame graph
Component(i) == Closure({i})

\* the members of C occupy consecutive positions of the order
Contiguous(order, C) ==
    \A a \in 1..Len(order), b \in 1..Len(order), k \in 1..Len(order) :
        (order[a] \in C /\ order[b] \in C /\ a <= k /\ k <= b) => order[k] \in C

\* the order restricted to the members of C
Within(order, C) == SelectSeq(order, LAMBDA x : x \in C)

\* ------------------------------------------------------------ the claims

\* C1 (as claimed): for every relation graph with all indices below N the
\* call returns, and the returned index list is a permutation of [0, N).
C1_Bijection ==
    /\ pc # "raised"
    /\ pc = "done" => IsPerm(inds_in_order, N)

\* C2 (as claimed): on scenario A with one direction of each pair stored, the
\* call returns; 0, 1, 2 are consecutive, each after the first next to an
\* earlier neighbour of the chain; 3 is outside the run; and the matrix is
\* nonzero exactly at the reordered positions of (0,1) and (1,2).
C2_ScenarioA ==
    Len(relations) = Len(ScenarioA) =>
        /\ pc # "raised"
        /\ pc = "done" =>
             /\ IsPerm(inds_in_order, N)
             /\ Contiguous(inds_in_order, {0, 1, 2})
             /\ LET w == Within(inds_in_order, {0, 1, 2}) IN
                \A k \in 2..Len(w) : \E m \in 1..(k - 1) : AdjPair(w[m], w[k])
             /\ \A a \in 0..(N - 1), b \in 0..(N - 1) :
                    relation_mat[a, b] # 0 <=>
                        <<inds_in_order[a + 1], inds_in_order[b + 1]>>
                            \in {<<0, 1>>, <<1, 2>>}

\* C3: in a returned order every connected component of the adjacent-frame
\* graph occupies one contiguous run of positions.
C3_ComponentsContiguous ==
    pc = "done" => \A i \in 0..(N - 1) : Contiguous(inds_in_order, Component(i))

\* a returned order with a component of two or more members, a third index,
\* and a first draw that had no adjacency entry
C3_Witness ==
    /\ pc = "done"
    /\ N >= 3
    /\ \E i \in 0..(N - 1) : Cardinality(Component(i)) >= 2
    /\ inds_in_order[1] \notin DOMAIN relation_dict

\* C4: the returned matrix is N x N and its entry at (p(i), p(j)) is 0.1 for
\* a same-trajectory key (i,j), 1.1 for an adjacent-frame key, 0 for no key
\* (weights in tenths).
C4_MatrixReindexed ==
    pc = "done" =>
        /\ DOMAIN relation_mat = (0..(N - 1)) \X (0..(N - 1))
        /\ \A i \in 0..(N - 1), j \in 0..(N - 1) :
              relation_mat[Pos(inds_in_order, i), Pos(inds_in_order, j)] =
                  IF <<i, j>> \notin Keys(relations) THEN 0
                  ELSE IF Lookup(relations, i, j) = 1 THEN 1
                  ELSE 11

\* a returned matrix with entries of both kinds under an order that moves them
C4_Witness ==
    /\ pc = "done"
    /\ \E k \in 1..Len(relations) : relations[k][3] = 1
    /\ \E k \in 1..Len(relations) : relations[k][3] = 2
    /\ \E k \in 1..Len(relations) :
          Pos(inds_in_order, relations[k][1]) # relations[k][1]

\* C5: the patch at position k of the returned dataset is the patch at index
\* perm[k] of the input dataset.
C5_PermRecoversIdentity ==
    pc = "done" =>
        /\ DOMAIN new_tensor = 0..(N - 1)
        /\ \A k \in 0..(N - 1) : new_tensor[k] = dataset[inds_in_order[k + 1]]

\* a returned order that is not the identity
C5_Witness ==
    /\ pc = "done"
    /\ \E k \in 0..(N - 1) : inds_in_order[k + 1] # k

\* C6 (as claimed): with an index outside [0, N) the error is raised at
\* entry: the loop is never reached, nothing is drawn, nothing is emitted.
C6_RaisedAtEntry ==
    /\ pc \in {"start", "raised"}
    /\ inds_in_order = <<>>
    /\ traj = <<>>

\* C6 (amended): with an index outside [0, N) the call never returns, and
\* it can only stop by raising.
C6_NeverReturns ==
    /\ pc # "done"
    /\ ~(ENABLED Next) => pc = "raised"

\* an error raised only after indices were drawn and emitted
C6_Witness ==
    /\ pc = "raised"
    /\ inds_in_order # <<>>

\* every index the traversal can meet
Nodes ==
    (0..(N - 1)) \cup {relations[k][c] : k \in 1..Len(relations), c \in 1..2}

\* a measure of the work left: the pool first, then the traversal
Rank ==
    LET K == 2 * Cardinality(Nodes) + 3 IN
    CASE pc = "start" -> (N + 1) * K
      [] pc = "loop" -> Cardinality(inds_pool) * K + (K - 1)
      [] pc = "bfs" -> Cardinality(inds_pool) * K
                          + 2 * Cardinality(Nodes \ Range(traj)) + Len(q) + 1
      [] OTHER -> 0

\* C7: every step of the call lowers a natural-number measure, so the
\* traversal and the outer loop terminate on every graph; no node is
\* enqueued twice; every completed outer iteration takes an index out of the
\* pool; and the loop is left for the return with the pool empty.
C7_Terminates ==
    [][/\ Rank' < Rank
       /\ Rank' >= 0
       /\ Cardinality(Range(traj')) = Len(traj')
       /\ (pc' = "loop" /\ pc # "start") =>
              Cardinality(inds_pool') < Cardinality(inds_pool)
       /\ pc' = "done" => inds_pool = {}]_vars

\* a traversal that went round a cycle and collected three nodes, returned
C7_Witness ==
    /\ pc = "done"
    /\ Len(traj) >= 3
    /\ \E k \in 1..Len(traj) : traj[1] \in Range(relation_dict[traj[k]])

\* C8 (as claimed): two returned runs on the same graph give every connected
\* component the same internal member order.
C8_SameInternalOrder ==
    (calls = 2 /\ pc = "done" /\ prev.outcome = "done") =>
        \A i \in 0..(N - 1) :
            Within(inds_in_order, Component(i)) = Within(prev.order, Component(i))

\* C8 (amended): two returned runs that start a component from the same
\* index give it the same internal member order.
C8_SameOrderFromSameStart ==
    (calls = 2 /\ pc = "done" /\ prev.outcome = "done") =>
        \A i \in 0..(N - 1) :
            LET a == Within(inds_in_order, Component(i))
                b == Within(prev.order, Component(i))
            IN  a[1] = b[1] => a = b

\* two returned runs with different block orders and a shared start of a
\* component of two or more members
C8_Witness ==
    /\ calls = 2
    /\ pc = "done"
    /\ prev.outcome = "done"
    /\ prev.order # inds_in_order
    /\ \E i \in 0..(N - 1) :
          /\ Cardinality(Component(i)) >= 2
          /\ Within(inds_in_order, Component(i))[1] = Within(prev.order, Component(i))[1]

\* C9: two calls with the same seed, dataset and relation graph end the same
\* way, and when they return they return the same permutation, dataset and
\* matrix.
C9_Reproducible ==
    (calls = 2 /\ seed # <<>> /\ pc \in {"done", "raised"}) =>
        /\ prev.outcome = pc
        /\ pc = "done" =>
              /\ prev.order = inds_in_order
              /\ prev.tensor = new_tensor
              /\ prev.mat = relation_mat

\* a second seeded call that returned an order other than the identity
C9_Witness ==
    /\ calls = 2
    /\ seed # <<>>
    /\ pc = "done"
    /\ \E k \in 0..(N - 1) : inds_in_order[k + 1] # k

\* C10 (as claimed): with an empty dataset, or with batch_size larger than
\* the dataset (and a learning rate the loop accepts), no error is raised
\* and every completed epoch (its line logged) has processed exactly one
\* minibatch.
C10_OneShortBatch ==
    (t_pc # "off" /\ (t_N = 0 \/ t_batch_size > t_N)
        /\ EnterError(t_fn, t_lr, t_conf, t_log_key) = "") =>
        /\ t_pc # "raised"
        /\ (t_pc = "epoch" /\ t_epoch > 0) => Len(t_recon_loss) = 1

\* C11: in train every finished minibatch has run forward, backward of
\* total_loss, one optimizer step and zero_grad in this order; whenever a
\* backward pass is about to start every stored gradient is zero; and after
\* training the optimizer has stepped n_epochs * n_batches times.
C11_TrainOrder ==
    t_fn = "train" =>
        /\ (t_pc = "batch" /\ t_i > 0) =>
               t_ops = << <<"forward", "model">>, <<"backward", "total_loss">>,
                          <<"step", "optimizer">>, <<"zero_grad", "model">> >>
        /\ (ENABLED Backward) => \A g \in DOMAIN t_grad : t_grad[g] = {}
        /\ t_pc = "done" =>
               t_steps["optimizer"] = t_n_epochs * NBatches(t_N, t_batch_size)

\* train has returned after two epochs of two minibatches each, entered with
\* gradients left over or not
C11_Witness ==
    /\ t_fn = "train"
    /\ t_pc = "done"
    /\ t_n_epochs = 2
    /\ t_n_batches = 2
    /\ t_steps["optimizer"] = 4

\* C12 (as claimed): in train_adversarial no gradient is stored when a
\* backward pass is about to start, and the update the generator optimizer
\* applies to the encoder comes from the generator loss alone.
C12_GradientsCleared ==
    (t_fn = "train_adversarial" /\ t_pc \notin {"start", "off"}
        /\ EnterError(t_fn, t_lr, t_conf, t_log_key) = "") =>
        /\ (ENABLED Backward) => \A g \in DOMAIN t_grad : t_grad[g] = {}
        /\ t_applied["optim_enc_g"] \subseteq {"generator_loss"}

\* C13 (as claimed): in train_adversarial every minibatch whose forward pass
\* has returned is finished (no later statement of the loop body raises),
\* and every finished minibatch has run, in this order, the forward pass,
\* backward of total_loss, a step of optim_enc and of optim_dec,
\* adversarial_loss, backward of the discriminator loss and a step of
\* optim_enc_d, backward of the generator loss and a step of optim_enc_g;
\* there are exactly four optimizers and each has stepped once for every
\* finished minibatch.
C13_AdversarialOrder ==
    (t_fn = "train_adversarial" /\ t_pc \notin {"start", "off"}
        /\ EnterError(t_fn, t_lr, t_conf, t_log_key) = "") =>
        /\ t_pc = "raised" => t_k = 0
        /\ (t_pc = "batch" /\ t_i > 0) =>
               SubSeq(t_ops, 1, 9) =
                   << <<"forward", "model">>, <<"backward", "total_loss">>,
                      <<"step", "optim_enc">>, <<"step", "optim_dec">>,
                      <<"adversarial_loss", "model">>,
                      <<"backward", "descriminator_loss">>,
                      <<"step", "optim_enc_d">>,
                      <<"backward", "generator_loss">>,
                      <<"step", "optim_enc_g">> >>
        /\ Cardinality(DOMAIN t_steps) = 4
        /\ t_pc = "batch" =>
               \A o \in DOMAIN t_steps :
                   t_steps[o] = t_epoch * t_n_batches + t_i

\* C14 (as claimed): whenever a variant's forward pass was given a relation
\* block, total_loss is the loss without time matching plus alpha times the
\* time-matching loss (in units of 0.0001).
C14_AlphaScaled ==
    (t_pc = "step" /\ t_batch.rel # <<>>) =>
        t_loss.total_loss =
            10000 * LossWithoutTimeMatching(t_model, t_batch.patch[1],
                                            t_batch.patch[2])
            + VAE_ALPHA * t_loss.time_matching_loss[1]

\* C16 (as claimed): in every epoch of either loop minibatch i holds the
\* positions [i*batch_size, min((i+1)*batch_size, N)), every minibatch but
\* the last has batch_size patches, at the end of the epoch every patch was
\* in exactly one minibatch, and the relation block and the mask slice the
\* model was given cover the positions of the patch slice.
C16_Partition ==
    t_pc \notin {"off", "start"} =>
        /\ \A k \in 1..Len(t_recon_loss) :
               /\ t_recon_loss[k] =
                      <<(k - 1) * t_batch_size,
                        Min({k * t_batch_size, t_N})>>
               /\ k < t_n_batches =>
                      t_recon_loss[k][2] - t_recon_loss[k][1] = t_batch_size
        /\ (t_pc = "batch" /\ t_i >= t_n_batches) =>
               \A p \in 0..(t_N - 1) :
                   Cardinality({k \in 1..Len(t_recon_loss) :
                       t_recon_loss[k][1] <= p /\ p < t_recon_loss[k][2]}) = 1
        /\ t_pc = "step" =>
               /\ t_batch.patch =
                      <<t_i * t_batch_size,
                        Min({(t_i + 1) * t_batch_size, t_N})>>
               /\ t_batch.rel # <<>> => t_batch.rel[1] = t_batch.patch
               /\ t_batch.mask # <<>> => t_batch.mask[1] = t_batch.patch

\* C17 (as claimed): when the relation block sliced for a minibatch of B
\* patches is not B x B, the forward pass of every variant raises: no loss
\* is returned and no statement of the loop body after it runs, so no
\* optimizer has stepped for that minibatch, and the block is never
\* broadcast against the B x B matrix of distances.
C17_ShapeMismatchFatal ==
    (t_pc # "off" /\ t_batch.rel # <<>>
        /\ t_batch.rel[1][2] - t_batch.rel[1][1]
               # t_batch.patch[2] - t_batch.patch[1]) =>
        /\ t_pc = "raised"
        /\ t_err \in {"AssertionError", "RuntimeError"}
        /\ \A o \in DOMAIN t_steps :
               t_steps[o] = t_epoch * t_n_batches + t_i

\* C18 (as claimed): without a relation matrix the model gets no relation
\* weights, reports no time_matching_loss and adds none to total_loss;
\* without a mask every pixel has weight 1; and a call lacking either (any
\* relation matrix given fitting the dataset, the learning rate one the loop
\* accepts) raises nothing.
C18_MissingNotAnError ==
    (t_pc # "off" /\ EnterError(t_fn, t_lr, t_conf, t_log_key) = "") =>
        /\ (t_rel_n = <<>> /\ t_pc = "step") =>
               /\ t_batch.rel = <<>>
               /\ t_loss.time_matching_loss = <<>>
               /\ t_loss.total_loss =
                      10000 * LossWithoutTimeMatching(t_model,
                                  t_batch.patch[1], t_batch.patch[2])
        /\ (~t_has_mask /\ t_pc = "step") =>
               /\ t_batch.mask = <<>>
               /\ t_loss.weights = "ones"
        /\ ((t_rel_n = <<>> \/ ~t_has_mask) /\ t_rel_n \in {<<>>, <<t_N>>}) =>
               t_pc # "raised"

\* C15 (as claimed): when the configuration lacks a field the class needs
\* (sizes, number of embeddings, commitment cost, channel variances, alpha),
\* the constructor raises: the model is never built, and no error is raised
\* by a forward pass.
C15_FatalAtConstruction ==
    (c_pc # "off"
        /\ c_missing \cap (ReadKeys(c_model) \ {"VAE_SAMPLING_K"}) # {}) =>
        /\ c_pc \in {"start", "raised"}
        /\ c_where # "forward"

\* the squared Euclidean distance of the latent vector at batch element b,
\* position (h, w) to codebook row k
RECURSIVE WSum(_, _)
WSum(f, n) == IF n = 0 THEN <<0, 0>> ELSE WAdd(WSum(f, n - 1), f[n - 1])

SqDist(b, h, w, k) ==
    WSum([d \in 0..(vq_shape[2] - 1) |->
             WMul(Abs(vq_x[<<b, d, h, w>>] - vq_w[k][d]),
                  Abs(vq_x[<<b, d, h, w>>] - vq_w[k][d]))],
         vq_shape[2])

\* the same distance as line 63 computes it in float32
FlDist(b, h, w, k) == Distance(vq_x, vq_w, vq_shape, <<b, k, h, w>>)

\* whether nothing is rounded in the distances of position (b, h, w)
ExactAt(b, h, w) ==
    \A k \in DOMAIN vq_w : FlDist(b, h, w, k) = SqDist(b, h, w, k)

\* C19 (as claimed): decode_inputs(encode_inputs(x)) holds, at every index
\* [b, d, h, w] of x, entry d of the codebook row selected for (b, h, w),
\* so it has the shape of x; forward, on the same x, raises nothing and
\* hands the decoder a tensor of the same values.
C19_RoundTrip ==
    /\ vq_pc \in {"decoded", "forwarded", "raised"} =>
           vq_decoded =
               [i \in Index(vq_shape) |->
                   vq_w[vq_indices[<<i[1], i[3], i[4]>>]][i[2]]]
    /\ vq_pc # "raised"
    /\ vq_pc = "forwarded" =>
           /\ DOMAIN vq_decoded = DOMAIN vq_x
           /\ vq_out.output_quantized = vq_decoded

\* whether quantized - inputs is a float32 value at index i
ExactDiff(i) == Fl(vq_decoded[i] - vq_x[i]) = vq_decoded[i] - vq_x[i]

\* C19: decode_inputs(encode_inputs(x)) holds, at every index [b, d, h, w]
\* of x, entry d of the codebook row selected for (b, h, w), so it has the
\* shape of x; forward, on the same x, raises nothing and its tensor
\* quantized has the same values; the tensor it hands the decoder,
\* inputs + (quantized - inputs), has the same value at every index where
\* the difference quantized - inputs is a float32 value.
C19_RoundTripWhereExact ==
    /\ vq_pc \in {"decoded", "forwarded", "raised"} =>
           vq_decoded =
               [i \in Index(vq_shape) |->
                   vq_w[vq_indices[<<i[1], i[3], i[4]>>]][i[2]]]
    /\ vq_pc # "raised"
    /\ vq_pc = "forwarded" =>
           /\ DOMAIN vq_decoded = DOMAIN vq_x
           /\ vq_out.quantized = vq_decoded
           /\ DOMAIN vq_out.output_quantized = DOMAIN vq_x
           /\ \A i \in DOMAIN vq_x :
                  ExactDiff(i) => vq_out.output_quantized[i] = vq_decoded[i]

\* a round trip that does not give back x: the two positions took different
\* rows, at one index the difference to x is not zero and exact, and the
\* decoder gets the entry of the codebook there; at another it is rounded
C19_Witness ==
    /\ vq_pc = "forwarded"
    /\ vq_shape = <<1, 2, 1, 2>>
    /\ vq_indices[<<0, 0, 0>>] # vq_indices[<<0, 0, 1>>]
    /\ \E i \in DOMAIN vq_x :
           /\ vq_decoded[i] # vq_x[i]
           /\ ExactDiff(i)
           /\ vq_out.output_quantized[i] = vq_decoded[i]
    /\ \E i \in DOMAIN vq_x : ~ExactDiff(i)

\* C20 (as claimed): at every batch element and position the index selected
\* by encode_inputs, and by forward, is in [0, num_embeddings) and no
\* codebook row is strictly nearer (in squared Euclidean distance) to the
\* latent vector there than the selected row.
C20_ArgMin ==
    /\ vq_pc \in {"encoded", "decoded", "forwarded"} =>
           \A b \in 0..(vq_shape[1] - 1), h \in 0..(vq_shape[3] - 1),
              w \in 0..(vq_shape[4] - 1) :
               /\ vq_indices[<<b, h, w>>] \in 0..(Cardinality(DOMAIN vq_w) - 1)
               /\ \A k \in DOMAIN vq_w :
                      ~WLess(SqDist(b, h, w, k),
                             SqDist(b, h, w, vq_indices[<<b, h, w>>]))
    /\ vq_pc = "forwarded" =>
           \A b \in 0..(vq_shape[1] - 1), h \in 0..(vq_shape[3] - 1),
              w \in 0..(vq_shape[4] - 1) :
               /\ vq_out.encoding_indices[<<b, h, w>>]
                      \in 0..(Cardinality(DOMAIN vq_w) - 1)
               /\ \A k \in DOMAIN vq_w :
                      ~WLess(SqDist(b, h, w, k),
                             SqDist(b, h, w,
                                    vq_out.encoding_indices[<<b, h, w>>]))

\* the selected index ind is a row of the codebook, no row has a strictly
\* smaller distance as line 63 computes it, and no row is strictly nearer
\* where nothing is rounded
Selected(b, h, w, ind) ==
    \E fl \in {[k \in DOMAIN vq_w |-> FlDist(b, h, w, k)]} :
    \E sq \in {[k \in DOMAIN vq_w |-> SqDist(b, h, w, k)]} :
        /\ ind \in 0..(Cardinality(DOMAIN vq_w) - 1)
        /\ \A k \in DOMAIN vq_w : ~WLess(fl[k], fl[ind])
        /\ fl = sq => \A k \in DOMAIN vq_w : ~WLess(sq[k], sq[ind])

\* C20: at every batch element and position the index selected by
\* encode_inputs, and by forward, is in [0, num_embeddings) and no codebook
\* row has a strictly smaller squared Euclidean distance to the latent
\* vector there, as line 63 computes the distance in float32, than the
\* selected row; where that arithmetic rounds nothing, no row is strictly
\* nearer.
C20_ArgMinComputed ==
    /\ vq_pc \in {"encoded", "decoded", "forwarded"} =>
           \A b \in 0..(vq_shape[1] - 1), h \in 0..(vq_shape[3] - 1),
              w \in 0..(vq_shape[4] - 1) :
               Selected(b, h, w, vq_indices[<<b, h, w>>])
    /\ vq_pc = "forwarded" =>
           \A b \in 0..(vq_shape[1] - 1), h \in 0..(vq_shape[3] - 1),
              w \in 0..(vq_shape[4] - 1) :
               Selected(b, h, w, vq_out.encoding_indices[<<b, h, w>>])

\* two batch elements: one strictly nearer to row 1 with nothing rounded,
\* the other strictly nearer to row 1 but at the same computed distance
\* from both rows
C20_Witness ==
    /\ vq_pc = "forwarded"
    /\ vq_shape = <<2, 2, 1, 1>>
    /\ Cardinality(DOMAIN vq_w) = 2
    /\ ExactAt(0, 0, 0)
    /\ WLess(SqDist(0, 0, 0, 1), SqDist(0, 0, 0, 0))
    /\ vq_indices[<<0, 0, 0>>] = 1
    /\ WLess(SqDist(1, 0, 0, 1), SqDist(1, 0, 0, 0))
    /\ FlDist(1, 0, 0, 1) = FlDist(1, 0, 0, 0)
    /\ vq_indices[<<1, 0, 0>>] = 0
\* C21 (as claimed): in AAE.adversarial_loss only the latent code fed to the
\* discriminator is detached, so that once the discriminator loss has been
\* backpropagated its data term log(1 - D(z_data)) is part of the gradient
\* stored on the discriminator's parameters, while no term of the
\* discriminator loss is part of the gradient stored on the encoder's.
C21_DataTermReachesDiscriminator ==
    (/\ t_fn = "train_adversarial"
     /\ t_pc = "step"
     /\ t_k \in 7..10) =>
        /\ "log(1 - D(z_data))" \in t_grad["enc_d"]
        /\ t_grad["enc"] \cap LossTerms("descriminator_loss") = {}
\* the epochs' log lines written so far (log_str), without the 'start
\* epoch' lines printed on the way
LogLines ==
    LET IsLogStr(l) == l.line = "log_str" IN SelectSeq(t_log, IsLogStr)

\* C22 (as claimed): both training loops emit exactly one log line per epoch,
\* after all minibatches of that epoch and before the first minibatch of the
\* next one, in increasing epoch order: while epoch e runs the log lines of
\* epochs 0..e-1 and no other are out, an epoch whose minibatches have all
\* run always gets its line, and a call that returns has logged n_epochs
\* lines.  Each log line went to the log file when one is configured and to
\* standard output otherwise.
C22_OneLinePerEpoch ==
    (/\ t_pc \notin {"off", "start"}
     /\ EnterError(t_fn, t_lr, t_conf, t_log_key) = "") =>
        /\ Len(LogLines) = t_epoch
        /\ \A k \in 1..Len(LogLines) :
               /\ LogLines[k].epoch = k - 1
               /\ LogLines[k].dest = IF t_log_file THEN "file" ELSE "stdout"
        /\ (t_pc = "batch" /\ t_i >= t_n_batches) =>
               LogError(t_recon_loss) = ""
        /\ t_pc = "done" => Len(LogLines) = t_n_epochs
\* the pairs of reordered positions that lie in minibatch i
SameBatchPairs(i, bs, n) ==
    {ab \in (0..(n - 1)) \X (0..(n - 1)) :
        ab[1] \div bs = i /\ ab[2] \div bs = i}

\* C24: whenever a forward pass was given a relation block, the
\* time-matching loss of minibatch i is the sum, over the pairs of positions
\* (a, b) with floor(a / batch_size) = floor(b / batch_size) = i and over no
\* other pair, of the squared latent distance times the relation weight: a
\* relation whose endpoints lie in different minibatches is in no
\* minibatch's loss.  (The relations are those of the matrix: a position
\* the matrix has no row for is in none.)
C24_SameBatchOnly ==
    (t_pc = "step" /\ t_batch.rel # <<>>) =>
        LET w == TrainRel(t_rel_n[1])
            P == SameBatchPairs(t_i, t_batch_size, t_N)
                     \cap ((DOMAIN w) \X (DOMAIN w))
        IN  t_loss.time_matching_loss =
                << SumOver([ab \in P |->
                       (Latent(ab[1]) - Latent(ab[2]))
                           * (Latent(ab[1]) - Latent(ab[2]))
                           * w[ab[1]][ab[2]]], P) >>

\* three patches in minibatches of two: positions 1 and 2 are adjacent frames
\* on either side of the batch boundary; the second minibatch holds position
\* 2 alone and its time-matching loss is 0, after the first one's, which
\* held the related pair (0, 1), was not
C24_Witness ==
    /\ t_pc = "step"
    /\ t_N = 3
    /\ t_batch_size = 2
    /\ t_rel_n = <<3>>
    /\ t_i = 1
    /\ TrainRel(3)[1][2] = W_ADJ
    /\ t_loss.time_matching_loss = <<0>>
    /\ t_recon_loss = << <<0, 2>> >>
\* C23 (as claimed): DynaMorphConfig instances share no state: an update or
\* an item assignment on one instance leaves the module's
\* default_model_parameters as they were and leaves every key reading the
\* same through every other instance, and an instance constructed later
\* reads the defaults the module was loaded with.
C23_NoSharedState ==
    [][/\ p_last'.op \in {"update", "__setitem__"} =>
            /\ p_heap'["default_model_parameters"]
                   = p_heap["default_model_parameters"]
            /\ \A j \in (1..Len(p_objs)) \ {p_last'.obj} :
                   \A key \in ParamKeys :
                       GetItemOf(p_heap', p_objs', j, key)
                           = GetItemOf(p_heap, p_objs, j, key)
       /\ p_last'.op = "__init__" =>
            \A key \in DOMAIN DefaultModelParameters :
                GetItemOf(p_heap', p_objs', p_last'.obj, key)
                    = <<DefaultModelParameters[key]>>]_vars
\* the workers that are alive, and those holding a site
AliveWorkers == {k \in 1..Len(m_workers) : m_workers[k].state = "alive"}

WorkersOf(s) ==
    {k \in 1..Len(m_workers) : s \in Range(m_workers[k].sites)}

\* what C25 says of the devices, of the end of main and of the order of
\* start and join: workers alive together are on distinct devices, main
\* returns with every worker terminated, run_patch gives worker i device i
\* and joins only after n_gpu workers were started, run_VAE has at most one
\* worker alive and none when it starts the next
WorkersPinnedAndJoined ==
    /\ \A j, k \in AliveWorkers :
           j # k => m_workers[j].device # m_workers[k].device
    /\ m_pc = "done" => AliveWorkers = {}
    /\ m_prog = "run_patch" =>
           /\ \A k \in 1..Len(m_workers) : m_workers[k].device = k - 1
           /\ m_pc \in {"join", "done"} => Len(m_workers) = m_args.gpus
           /\ m_pc = "spawn" => m_i = Len(m_workers)
    /\ m_prog = "run_VAE" =>
           /\ Cardinality(AliveWorkers) <= 1
           /\ m_pc = "spawn" => AliveWorkers = {}

\* C25 (as claimed): the above, and in run_patch, once the workers are
\* started, each segment site is assigned to exactly one worker.
C25_DistinctDevices ==
    m_pc # "off" =>
        /\ WorkersPinnedAndJoined
        /\ (m_prog = "run_patch" /\ m_pc \in {"join", "done"}) =>
               \A s \in Range(m_sites) : Cardinality(WorkersOf(s)) = 1

\* the sites of the workers, one worker after the other
RECURSIVE ConcatSites(_)
ConcatSites(ws) ==
    IF ws = <<>> THEN <<>> ELSE ws[1].sites \o ConcatSites(Tail(ws))

\* C25 (amended): the above, and in run_patch, once the workers are started
\* and provided --gpus is at least 1, the workers' lists of sites laid end to
\* end are the list of segment sites, so each entry of the list goes to
\* exactly one worker, and each site that the list names once is assigned to
\* exactly one worker; with --gpus 0 no worker is started, no site is
\* assigned and main returns normally.
C25_DistinctDevicesPositiveGpus ==
    m_pc # "off" =>
        /\ WorkersPinnedAndJoined
        /\ (m_prog = "run_patch" /\ m_pc \in {"join", "done"}) =>
               /\ m_args.gpus >= 1 =>
                      /\ ConcatSites(m_workers) = m_sites
                      /\ Injective(m_sites) =>
                             \A s \in Range(m_sites) :
                                 Cardinality(WorkersOf(s)) = 1
               /\ m_args.gpus = 0 => m_workers = <<>>

\* run_patch has started two workers on the three segment sites 3, 1, 2, the
\* first on device 0 with site 3 and the second on device 1 with sites 1 and
\* 2; both are alive and main waits in the first join
C25_Witness ==
    /\ m_prog = "run_patch"
    /\ m_pc = "join"
    /\ m_i = 0
    /\ m_sites = <<3, 1, 2>>
    /\ AliveWorkers = {1, 2}
    /\ m_workers[1].sites = <<3>>
    /\ m_workers[2].sites = <<1, 2>>
    /\ m_workers[1].device = 0
    /\ m_workers[2].device = 1
\* C26 (as claimed): when run_VAE's main has passed validation and returned,
\* a worker was run for every well found among the sites, also for the
\* methods 'assemble' and 'trajectory_matching' without any --weights.
C26_WorkerPerWell ==
    (m_prog = "run_VAE" /\ m_pc = "done") =>
        \A s \in Range(m_sites) :
            \E k \in 1..Len(m_workers) : m_workers[k].well = WellOf(s)

\* C27 (as claimed): run_patch with method 'build_trajectories', with
\* --supplementary and --fov given and --raw omitted, passes validation and
\* never fails afterwards; and whenever main fails for a required directory
\* that is missing, the exception is AttributeError and no worker was started.
C27_RawNotRequired ==
    (m_prog = "run_patch" /\ m_pc # "start") =>
        /\ (/\ m_args.method = "build_trajectories"
            /\ m_args.supplementary
            /\ m_args.fov
            /\ ~m_args.raw) => m_pc # "raised"
        /\ (m_pc = "raised" /\ PatchArgError(m_args) # "") =>
               (m_err = "AttributeError" /\ m_workers = <<>>)
\* some name is in two of the groups
GroupsOverlap(groups) ==
    \E g, h \in DOMAIN groups : g # h /\ groups[g] \cap groups[h] # {}

\* C28 (as claimed): constructing a YamlReader raises AttributeError exactly
\* when two of the four groups share a name, and succeeds exactly when the
\* groups are pairwise disjoint.
C28_PairwiseDisjoint ==
    (y_pc \notin {"off", "new"}) =>
        ((y_pc = "raised" /\ y_err = "AttributeError")
            <=> GroupsOverlap(y_groups))

\* C29 (as claimed): when read_config has returned, every field of the
\* sections files, model and training whose key is in that section's own
\* group is an attribute of the reader, holding the section's value, and the
\* fields warned about are those whose key is not in their section's group.
C29_OwnGroup ==
    y_pc = "done" =>
        \A section \in {"files", "model", "training"} :
            \A key \in y_config[section] :
                /\ key \in y_groups[section] =>
                       (key \in DOMAIN y_attrs /\ y_attrs[key] = section)
                /\ <<section, key>> \in y_warned
                       <=> key \notin y_groups[section]
\* the sites main has tried to write, in the order of the attempts, and
\* those it has reported as failed
Attempted ==
    LET IsWriting(line) == line[1] = "writing"
        w == SelectSeq(i_out, IsWriting)
    IN  [k \in 1..Len(w) |-> w[k][2]]

Reported ==
    LET IsError(line) == line[1] = "error in writing"
        w == SelectSeq(i_out, IsError)
    IN  [k \in 1..Len(w) |-> w[k][2]]

\* C30 (as claimed): run_preproc's main never raises; the sites attempted
\* so far are the first entries of the list, each once and in list order,
\* the failures reported are those of them whose write failed, in the same
\* order, and when main returns every entry of the list has been attempted.
C30_FailuresIsolated ==
    (i_pc \notin {"off", "start"}) =>
        LET Failed(s) == i_write[s] # ""
        IN  /\ i_pc # "raised"
            /\ Attempted = SubSeq(i_sites, 1, Len(i_sites) - Len(i_todo))
            /\ Reported = SelectSeq(Attempted, Failed)
            /\ i_pc = "done" => Attempted = i_sites

\* the three statements of main that are outside the try statement or not
\* covered by its except clause: os.listdir of the input path fails,
\* os.makedirs of the output directory fails on the first pass of the loop,
\* the write of some site raises an exception that is no Exception
ListingFails == ~i_fov /\ ListdirError(i_input) # ""

MakingFails == i_outdir = "blocked" /\ i_sites # <<>>

WriteEscapes(site) == i_write[site] = "BaseException"

\* C30 (amended): the sites attempted so far are the first entries of the
\* list, each once and in list order, and the failures reported are those of
\* them whose write raised an Exception, in the same order.  When main
\* returns every entry of the list has been attempted.  When main raises,
\* it is os.listdir's error and no site was attempted, or os.makedirs' error
\* before the first site and no site was attempted, or the exception of the
\* site attempted last, which is no Exception and the first such in the
\* list.  Main does not raise when none of the three can happen, whichever
\* sites fail with an Exception.
C30_FailuresIsolatedUnlessEscaping ==
    (i_pc \notin {"off", "start"}) =>
        LET Caught(s) == i_write[s] = "Exception"
            n == Len(Attempted)
        IN  /\ n <= Len(i_sites)
            /\ Attempted = SubSeq(i_sites, 1, n)
            /\ i_pc # "raised" => n = Len(i_sites) - Len(i_todo)
            /\ Reported = SelectSeq(Attempted, Caught)
            /\ i_pc = "done" => Attempted = i_sites
            /\ i_pc = "raised" =>
                   \/ /\ ListingFails
                      /\ i_err = ListdirError(i_input)
                      /\ i_out = <<>>
                   \/ /\ ~ListingFails
                      /\ MakingFails
                      /\ i_err = "OSError"
                      /\ i_out = <<>>
                   \/ /\ ~ListingFails
                      /\ ~MakingFails
                      /\ i_err = "BaseException"
                      /\ n > 0
                      /\ WriteEscapes(Attempted[n])
                      /\ \A k \in 1..(n - 1) : ~WriteEscapes(Attempted[k])
            /\ (/\ ~ListingFails
                /\ ~MakingFails
                /\ \A s \in Range(i_sites) : ~WriteEscapes(s)) =>
                   i_pc # "raised"

\* main has returned from the list 2, 1, 3 where writing site 1 raised an
\* Exception: site 3 was attempted after the failure was reported
C30_Witness ==
    /\ i_pc = "done"
    /\ i_sites = <<2, 1, 3>>
    /\ i_write[1] = "Exception"
    /\ i_write[2] = ""
    /\ i_write[3] = ""
    /\ i_out = << <<"writing", 2>>, <<"writing", 1>>,
                  <<"error in writing", 1>>, <<"writing", 3>> >>

====
